---- MODULE Spec2Model ----
(***************************************************************************)
(* Verification model of the ip-config monitor: the detection chain        *)
(* (IpDetectionService.getPublicIp), the git publish workflow              *)
(* (GitService.commitIpChange / commitAndPush) and the monitoring loop     *)
(* (IpMonitorService, debounce, HealthStatus, process handlers).           *)
(*                                                                         *)
(* Strings that the program inspects character by character (addresses)   *)
(* are sequences of one-character strings.                                 *)
(***************************************************************************)
EXTENDS Integers, Sequences, FiniteSets, TLC

VARIABLES
    \* ---- IpDetectionService.getPublicIp (one call) ----
    dPc,        \* "idle" | "running" | "returned" | "thrown"
    dIdx,       \* position in sortedMethods of the strategy being tried
    dAttempt,   \* withRetry attempt number for that strategy
    dErrors,    \* the local `errors` array
    dResult,    \* the returned object, or NoResult
    dCalls,     \* priority -> number of invocations of that strategy's method
    dOut,       \* priority -> last token that strategy's method returned
    \* ---- GitService.commitIpChange (one call) ----
    gEnabled,   \* this.enabled
    gAutoCommit,\* this.autoCommit
    gEntry,     \* method the caller invoked: "commitIpChange" | "commitAndPush"
    gFiles,     \* the `files` argument of commitAndPush
    gMessage,   \* the `message` argument of commitAndPush
    gCommitMsg, \* the message of the git commit command of the current attempt
    gPc,        \* position inside commitIpChange / commitAndPush
    gAttempt,   \* withRetry attempt number
    gOps,       \* the local `operations` array of the current attempt
    gCmds,      \* git commands issued during the current attempt, in order
    gHasChanges,\* status.hasChanges of the current attempt
    gCommitted, \* the commit command of the current attempt created a commit
    gHead,      \* local commits not on the remote, relative to the call's start
    gRollbacks, \* rollback attempts (git reset --soft HEAD~1) in this call
    gRbFailed,  \* some rollback attempt of this call failed
    gPushFails, \* attempts of this call whose push failed after a real commit
    gFailedAt,  \* step of the current attempt whose command failed, or "none"
    gOutcome,   \* "none" | "returned" | "thrown"
    gResult,    \* the returned object, or NoResult
    \* ---- IpMonitorService and its process ----
    isRunning,  \* this.isRunning
    intervalId, \* TRUE when the setInterval timer is scheduled
    timeoutId,  \* TRUE when the debounce setTimeout is pending
    health,     \* HealthStatus.status
    file,       \* content of the local record file
    cycles,     \* slot -> one execution of checkAndUpdateIp
    started,    \* number of cycles started so far
    startPc,    \* position inside start()
    procAlive,  \* the node process has not exited
    unhandled,  \* an unhandledRejection event was emitted
    timerFailures, \* periodically triggered cycles that ended by throwing
    stopped,    \* stop() has returned since start() was last called
    simple,     \* the service is the simple variant (no notifications)
    timers,     \* the setInterval timers that were created and not cleared
    validation, \* outcome of validateServices in the current start()
    \* ---- isValidIp (one call) ----
    vIn,        \* the argument
    vOut,       \* the returned boolean
    \* ---- the environment ----
    remoteDoc,  \* the address the remote mirror (githubRawUrl) reports
    clock,      \* the time, in units of the model
    \* ---- debounce(func, delay) and the timers of the event loop ----
    timeouts,   \* due times of the setTimeout timers that are pending
    handle,     \* the closure's timeoutId: due time of the last setTimeout
    nextTickAt, \* time at which the setInterval timer fires next
    lastCallAt, \* time of the last call of the debounced function
    ticks,      \* calls of the debounced function made by the interval
    otherCalls, \* calls of the debounced function made by anyone else
    \* ---- withRetry(fn, maxRetries, baseDelay) (one call) ----
    wPc,        \* "idle" | "attempt" | "sleeping" | "returned" | "thrown"
    wMaxRetries,\* the maxRetries argument
    wBaseDelay, \* the baseDelay argument
    wAttempt,   \* the loop variable `attempt`
    wDelay,     \* the local `delay` of the sleep in progress
    wTimes,     \* the times at which fn was called, in order
    wLastMessage, \* error.message of the last failure of fn
    wError,     \* the message of the error withRetry threw, or NoError
    \* ---- RateLimiter (one object) ----
    calls,      \* this.calls: the recorded timestamps, oldest first
    allowed,    \* when isAllowed() was last called and what it returned
    status,     \* what the last getStatus() returned, or NoStatus
    admitted,   \* every call isAllowed() admitted: its time and the number
                \* of reset() calls made before it
    resets      \* number of reset() calls

dVars == <<dPc, dIdx, dAttempt, dErrors, dResult, dCalls, dOut>>
gRun == <<gAutoCommit, gEntry, gFiles, gMessage, gCommitMsg, gPc, gAttempt, gOps, gCmds,
          gHasChanges, gCommitted, gHead, gRollbacks, gRbFailed, gPushFails,
          gFailedAt, gOutcome, gResult>>
gVars == <<gEnabled, gRun>>
mVars == <<isRunning, intervalId, timeoutId, health, file, cycles, started,
           startPc, procAlive, unhandled, timerFailures, stopped, simple,
           timers, validation>>
pVars == <<vIn, vOut>>
bVars == <<timeouts, handle, nextTickAt, lastCallAt, ticks, otherCalls>>
wVars == <<wPc, wMaxRetries, wBaseDelay, wAttempt, wDelay, wTimes,
           wLastMessage, wError>>
lVars == <<calls, allowed, status, admitted, resets>>
eVars == <<remoteDoc, clock, bVars, wVars, lVars>>
vars == <<dVars, gVars, mVars, pVars, eVars>>

NoResult == [success |-> FALSE, kind |-> "none"]

(***************************************************************************)
(* Address strings                                                         *)
(***************************************************************************)
Digits == {"0", "1", "2", "3", "4", "5", "6", "7", "8", "9"}
HexDigits == Digits \cup {"a", "b", "c", "d", "e", "f", "A", "B", "C", "D", "E", "F"}

IP_A == <<"1", ".", "1", ".", "1", ".", "1">>
IP_B == <<"2", "5", "5", ".", "0", ".", "0", ".", "9">>
IP_V6 == <<"f", "e", "8", "0", ":", "0", ":", "0", ":", "0", ":", "0", ":", "0", ":", "0", ":", "1">>
IP_V6_FULL == <<"2", "0", "0", "1", ":", "0", "d", "b", "8", ":", "8", "5", "a", "3", ":",
                "0", "0", "0", "0", ":", "0", "0", "0", "0", ":", "8", "a", "2", "e", ":",
                "0", "3", "7", "0", ":", "7", "3", "3", "4">>
BAD_OCTET == <<"2", "5", "6", ".", "1", ".", "1", ".", "1">>
BAD_COUNT == <<"1", ".", "1", ".", "1">>
EMPTY == <<>>

RECURSIVE SplitOn(_, _)
SplitOn(s, sep) ==
    IF \A i \in 1..Len(s) : s[i] # sep
    THEN <<s>>
    ELSE LET k == CHOOSE i \in 1..Len(s) :
                      s[i] = sep /\ \A j \in 1..(i - 1) : s[j] # sep
         IN <<SubSeq(s, 1, k - 1)>> \o SplitOn(SubSeq(s, k + 1, Len(s)), sep)

ipv4OctetAnyDigits(o) ==
    /\ Len(o) \in 1..3
    /\ \A i \in 1..Len(o) : o[i] \in Digits

\* (?:25[0-5]|2[0-4][0-9]|[01]?[0-9][0-9]?)
ipv4Octet(o) ==
    /\ Len(o) \in 1..3
    /\ \A i \in 1..Len(o) : o[i] \in Digits
    /\ \/ Len(o) \in {1, 2}
       \/ /\ Len(o) = 3
          /\ \/ o[1] \in {"0", "1"}
             \/ o[1] = "2" /\ o[2] \in {"0", "1", "2", "3", "4"}
             \/ o[1] = "2" /\ o[2] = "5" /\ o[3] \in {"0", "1", "2", "3", "4", "5"}

\* [0-9a-fA-F]{1,4}
ipv6Group(g) ==
    /\ Len(g) \in 1..4
    /\ \A i \in 1..Len(g) : g[i] \in HexDigits

ipv4Regex(ip) ==
    LET parts == SplitOn(ip, ".")
    IN Len(parts) = 4 /\ \A i \in 1..4 : ipv4Octet(parts[i])

ipv6Regex(ip) ==
    LET parts == SplitOn(ip, ":")
    IN Len(parts) = 8 /\ \A i \in 1..8 : ipv6Group(parts[i])

isValidIpAny(ip) == TRUE

\* a value whose typeof is not 'string' (a number, an object, an array)
NOT_STRING == <<"typeof object">>

\* typeof ip === 'string'
IsString(ip) == ip # NOT_STRING

isValidIp(ip) ==
    IF ip = EMPTY \/ ~IsString(ip) THEN FALSE
    ELSE ipv4Regex(ip) \/ ipv6Regex(ip)

\* a caller calls isValidIp(ip); `input` holds the value and how it was
\* put together
isValidIp_Call(input) ==
    /\ vIn' = input
    /\ vOut' = isValidIp(input.value)
    /\ UNCHANGED <<dVars, gVars, mVars, eVars>>

(***************************************************************************)
(* sanitizeGitMessage and the commit message of GitService.commitIpChange  *)
(***************************************************************************)
MessageLimit == 100

\* "U+0060" stands for the grave accent character
DangerousChars == {"U+0060", "$", "(", ")", "{", "}", "[", "]", "|", "&", ";"}
Whitespace == {" ", "\t", "\n", "\r"}

RemoveNothing(s) == s

\* the first replace of sanitizeGitMessage: the dangerous characters are removed
RemoveDangerous(s) == SelectSeq(s, LAMBDA ch : ch \notin DangerousChars)

\* the second replace: every run of whitespace becomes one space
NormalizeWhitespace(s) ==
    LET marked == [i \in 1..Len(s) |->
                     [ch |-> IF s[i] \in Whitespace THEN " " ELSE s[i],
                      first |-> ~(s[i] \in Whitespace /\ i > 1 /\ s[i - 1] \in Whitespace)]]
        kept == SelectSeq(marked, LAMBDA m : m.first)
    IN [i \in 1..Len(kept) |-> kept[i].ch]

\* .trim()
RECURSIVE Trim(_)
Trim(s) ==
    IF s = <<>> THEN <<>>
    ELSE IF Head(s) \in Whitespace THEN Trim(Tail(s))
    ELSE IF s[Len(s)] \in Whitespace THEN Trim(SubSeq(s, 1, Len(s) - 1))
    ELSE s

\* .substring(0, n)
Substring0(s, n) == IF Len(s) > n THEN SubSeq(s, 1, n) ELSE s

DefaultMessage == <<"U", "p", "d", "a", "t", "e", " ", "I", "P">>

sanitizeGitMessageShort(message) ==
    Substring0(Trim(NormalizeWhitespace(RemoveDangerous(message))), 40)

sanitizeGitMessage(message) ==
    IF message = EMPTY THEN DefaultMessage
    ELSE Substring0(Trim(NormalizeWhitespace(RemoveDangerous(message))), MessageLimit)

UpdateIpPrefix == <<"u", "p", "d", "a", "t", "e", " ", "i", "p", " ">>
Arrow == <<" ", "-", ">", " ">>

\* the message template of GitService.commitIpChange
commitMessage(ip, oldIp) ==
    IF oldIp # EMPTY
    THEN UpdateIpPrefix \o oldIp \o Arrow \o ip
    ELSE UpdateIpPrefix \o ip

(***************************************************************************)
(* withRetry: the attempt that fails is the last one                       *)
(***************************************************************************)
withRetryOneMore(attempt, maxRetries) == attempt = maxRetries + 1

withRetryLast(attempt, maxRetries) == attempt = maxRetries

(***************************************************************************)
(* IpDetectionService                                                      *)
(***************************************************************************)
detectionMethods ==
    << [name |-> "Google DNS", priority |-> 1],
       [name |-> "IPify API", priority |-> 2],
       [name |-> "AWS CheckIP", priority |-> 3],
       [name |-> "HTTPBin", priority |-> 4],
       [name |-> "ICanHazIP", priority |-> 5] >>

Priorities == {detectionMethods[i].priority : i \in 1..Len(detectionMethods)}

DetectRetries == 2

\* tokens a strategy's method can hand back
Tokens == {IP_A, IP_B, IP_V6, BAD_OCTET, BAD_COUNT, EMPTY}

RECURSIVE InsertByPriority(_, _)
InsertByPriority(m, sorted) ==
    IF sorted = <<>> THEN <<m>>
    ELSE IF m.priority - Head(sorted).priority < 0
         THEN <<m>> \o sorted
         ELSE <<Head(sorted)>> \o InsertByPriority(m, Tail(sorted))

RECURSIVE SortByPriority(_)
SortByPriority(ms) ==
    IF ms = <<>> THEN <<>>
    ELSE InsertByPriority(ms[Len(ms)], SortByPriority(SubSeq(ms, 1, Len(ms) - 1)))

RECURSIVE ReverseSeq(_)
ReverseSeq(s) == IF s = <<>> THEN <<>> ELSE Append(ReverseSeq(Tail(s)), Head(s))

sortedMethodsDescending == ReverseSeq(SortByPriority(detectionMethods))

sortedMethods == SortByPriority(detectionMethods)

\* the catch block of the loop body: errors.push({method, error})
pushErrorDropInvalid(errors, name, reason) ==
    IF reason = "invalid" THEN errors ELSE Append(errors, [method |-> name, error |-> reason])

pushError(errors, name, reason) ==
    Append(errors, [method |-> name, error |-> reason])

\* after the catch block: the for loop moves to the next strategy, or ends
\* and the aggregated error is thrown
NextStrategy(errors) ==
    /\ dErrors' = errors
    /\ dAttempt' = 1
    /\ dResult' = NoResult
    /\ IF dIdx = Len(sortedMethods)
       THEN dPc' = "thrown" /\ dIdx' = dIdx
       ELSE dPc' = "running" /\ dIdx' = dIdx + 1

getPublicIp_Call ==
    /\ dPc # "running"
    /\ dPc' = "running"
    /\ dIdx' = 1
    /\ dAttempt' = 1
    /\ dErrors' = <<>>
    /\ dResult' = NoResult
    /\ dCalls' = [p \in Priorities |-> 0]
    /\ dOut' = [p \in Priorities |-> EMPTY]
    /\ UNCHANGED <<gVars, mVars, pVars, eVars>>

\* the strategy's method rejects (transport error, command failure, timeout)
MethodThrows ==
    /\ dPc = "running"
    /\ LET m == sortedMethods[dIdx]
       IN /\ dCalls' = [dCalls EXCEPT ![m.priority] = @ + 1]
          /\ dOut' = dOut
          /\ IF withRetryLast(dAttempt, DetectRetries)
             THEN NextStrategy(pushError(dErrors, m.name, "retries"))
             ELSE /\ dAttempt' = dAttempt + 1
                  /\ UNCHANGED <<dPc, dIdx, dErrors, dResult>>
    /\ UNCHANGED <<gVars, mVars, pVars, eVars>>

\* the strategy's method resolves with a token
MethodReturns(tok) ==
    /\ dPc = "running"
    /\ LET m == sortedMethods[dIdx]
       IN /\ dCalls' = [dCalls EXCEPT ![m.priority] = @ + 1]
          /\ dOut' = [dOut EXCEPT ![m.priority] = tok]
          /\ IF isValidIp(tok)
             THEN /\ dPc' = "returned"
                  /\ dResult' = [success |-> TRUE, kind |-> "ip", ip |-> tok, method |-> m.name]
                  /\ UNCHANGED <<dIdx, dAttempt, dErrors>>
             ELSE NextStrategy(pushError(dErrors, m.name, "invalid"))
    /\ UNCHANGED <<gVars, mVars, pVars, eVars>>

(***************************************************************************)
(* GitService                                                              *)
(***************************************************************************)
GitMaxRetries == 3

IpFile == "src/config/ip.json"

Includes(seq, x) == \E i \in 1..Len(seq) : seq[i] = x

\* the condition guarding attemptRollback in commitAndPush's catch block
rollbackWanted(operations) ==
    Includes(operations, "commit") /\ ~Includes(operations, "push")

\* commitAndPush step 2: nothing changed and no file was named
nothingToCommitNever(hasChanges, files) == FALSE

nothingToCommit(hasChanges, files) == ~hasChanges /\ Len(files) = 0

\* commit(): the command's result as the step sees it; 'nothing to commit'
\* is caught and returned as a normal result
commitReturnsAlways(outcome) == TRUE

commitReturnsOkOnly(outcome) == outcome = "ok"

commitReturns(outcome) == outcome \in {"ok", "nothing"}

\* the commitAndPush promise rejects: withRetry's catch, then commitIpChange's
AttemptReturnsFailure ==
    IF gEntry = "commitAndPush" \/ withRetryLast(gAttempt, GitMaxRetries)
    THEN /\ gPc' = "done"
         /\ gOutcome' = "returned"
         /\ gResult' = [success |-> FALSE, kind |-> "failed"]
         /\ UNCHANGED <<gAttempt, gOps, gCmds>>
    ELSE /\ gPc' = "sleep"
         /\ UNCHANGED <<gAttempt, gOps, gCmds, gOutcome, gResult>>

AttemptThrows ==
    IF gEntry = "commitAndPush" \/ withRetryLast(gAttempt, GitMaxRetries)
    THEN /\ gPc' = "done"
         /\ gOutcome' = "thrown"
         /\ gResult' = NoResult
         /\ UNCHANGED <<gAttempt, gOps, gCmds>>
    ELSE /\ gPc' = "sleep"
         /\ UNCHANGED <<gAttempt, gOps, gCmds, gOutcome, gResult>>

\* a step of commitAndPush threw: its catch block
AttemptFails ==
    IF rollbackWanted(gOps)
    THEN /\ gPc' = "rollback"
         /\ gCmds' = Append(gCmds, "reset")
         /\ gRollbacks' = gRollbacks + 1
         /\ UNCHANGED <<gAttempt, gOps, gOutcome, gResult>>
    ELSE /\ AttemptThrows
         /\ UNCHANGED gRollbacks

\* commitAndPush is entered: operations.push('pull'); this.pull()
EnterAttempt(attempt) ==
    /\ gPc' = "pull"
    /\ gAttempt' = attempt
    /\ gOps' = <<"pull">>
    /\ gCmds' = <<"pull">>
    /\ gHasChanges' = FALSE
    /\ gCommitted' = FALSE
    /\ gFailedAt' = "none"
    /\ gCommitMsg' = EMPTY

GitReturn(kind) ==
    /\ gPc' = "done"
    /\ gOutcome' = "returned"
    /\ gResult' = [success |-> TRUE, kind |-> kind]

autoCommitDisabledEnabledOnly(enabled, autoCommit) == ~enabled

\* the guard of commitIpChange: !this.enabled || !this.autoCommit
autoCommitDisabled(enabled, autoCommit) == ~enabled \/ ~autoCommit

commitIpChange_Call(ip, oldIp) ==
    /\ gPc \in {"idle", "done"}
    /\ gEntry' = "commitIpChange"
    /\ gFiles' = <<IpFile>>
    /\ gMessage' = commitMessage(ip, oldIp)
    /\ gHead' = 0
    /\ gRollbacks' = 0
    /\ gRbFailed' = FALSE
    /\ gPushFails' = 0
    /\ IF autoCommitDisabled(gEnabled, gAutoCommit)
       THEN /\ GitReturn("disabled")
            /\ gAttempt' = 1
            /\ gOps' = <<>>
            /\ gCmds' = <<>>
            /\ gHasChanges' = FALSE
            /\ gCommitted' = FALSE
            /\ gFailedAt' = "none"
            /\ gCommitMsg' = EMPTY
       ELSE /\ EnterAttempt(1)
            /\ gOutcome' = "none"
            /\ gResult' = NoResult
    /\ UNCHANGED <<gEnabled, gAutoCommit, dVars, mVars, pVars, eVars>>

commitAndPush_Call(message, files) ==
    /\ gPc \in {"idle", "done"}
    /\ gEntry' = "commitAndPush"
    /\ gFiles' = files
    /\ gMessage' = message
    /\ gHead' = 0
    /\ gRollbacks' = 0
    /\ gRbFailed' = FALSE
    /\ gPushFails' = 0
    /\ IF ~gEnabled
       THEN /\ GitReturn("disabled")
            /\ gAttempt' = 1
            /\ gOps' = <<>>
            /\ gCmds' = <<>>
            /\ gHasChanges' = FALSE
            /\ gCommitted' = FALSE
            /\ gFailedAt' = "none"
            /\ gCommitMsg' = EMPTY
       ELSE /\ EnterAttempt(1)
            /\ gOutcome' = "none"
            /\ gResult' = NoResult
    /\ UNCHANGED <<gEnabled, gAutoCommit, dVars, mVars, pVars, eVars>>

\* git pull completes
GitPull(ok) ==
    /\ gPc = "pull"
    /\ IF ok
       THEN /\ gPc' = "status"
            /\ gCmds' = Append(gCmds, "status")
            /\ UNCHANGED <<gAttempt, gOps, gRollbacks, gOutcome, gResult>>
       ELSE AttemptFails
    /\ gFailedAt' = IF ok THEN gFailedAt ELSE "pull"
    /\ UNCHANGED <<gEnabled, gAutoCommit, gEntry, gFiles, gMessage, gCommitMsg, gHasChanges, gCommitted,
                   gHead, gRbFailed, gPushFails, dVars, mVars, pVars, eVars>>

\* getStatus: git status --porcelain completes
GitStatus(ok, hasChanges) ==
    /\ gPc = "status"
    /\ IF ok
       THEN /\ gPc' = "branch"
            /\ gHasChanges' = hasChanges
            /\ gCmds' = Append(gCmds, "branch")
            /\ UNCHANGED <<gAttempt, gOps, gRollbacks, gOutcome, gResult>>
       ELSE /\ AttemptFails
            /\ UNCHANGED gHasChanges
    /\ gFailedAt' = IF ok THEN gFailedAt ELSE "status"
    /\ UNCHANGED <<gEnabled, gAutoCommit, gEntry, gFiles, gMessage, gCommitMsg, gCommitted,
                   gHead, gRbFailed, gPushFails, dVars, mVars, pVars, eVars>>

\* getStatus: git branch --show-current completes; then the dirty check and,
\* unless it short-circuits, operations.push('add'); this.add(files)
GitBranch(ok) ==
    /\ gPc = "branch"
    /\ IF ok
       THEN IF nothingToCommit(gHasChanges, gFiles)
            THEN /\ GitReturn("nochanges")
                 /\ UNCHANGED <<gAttempt, gOps, gCmds, gRollbacks>>
            ELSE /\ gPc' = "add"
                 /\ gOps' = Append(gOps, "add")
                 /\ gCmds' = Append(gCmds, "add")
                 /\ UNCHANGED <<gAttempt, gRollbacks, gOutcome, gResult>>
       ELSE AttemptFails
    /\ gFailedAt' = IF ok THEN gFailedAt ELSE "status"
    /\ UNCHANGED <<gEnabled, gAutoCommit, gEntry, gFiles, gMessage, gCommitMsg, gHasChanges, gCommitted,
                   gHead, gRbFailed, gPushFails, dVars, mVars, pVars, eVars>>

\* git add completes; then operations.push('commit'); this.commit(message, [])
\* sanitizes the message and, unless nothing is left of it, issues git commit
GitAdd(ok) ==
    /\ gPc = "add"
    /\ IF ok
       THEN /\ gPc' = "commit"
            /\ gOps' = Append(gOps, "commit")
            /\ gCommitMsg' = sanitizeGitMessage(gMessage)
            /\ gCmds' = IF sanitizeGitMessage(gMessage) # EMPTY
                        THEN Append(gCmds, "commit") ELSE gCmds
            /\ UNCHANGED <<gAttempt, gRollbacks, gOutcome, gResult>>
       ELSE /\ AttemptFails
            /\ UNCHANGED gCommitMsg
    /\ gFailedAt' = IF ok THEN gFailedAt ELSE "add"
    /\ UNCHANGED <<gEnabled, gAutoCommit, gEntry, gFiles, gMessage, gHasChanges, gCommitted,
                   gHead, gRbFailed, gPushFails, dVars, mVars, pVars, eVars>>

\* git commit completes: "ok" created a commit, "nothing" is the
\* 'nothing to commit' error that commit() turns into a normal return,
\* "fail" is any other error; then operations.push('push'); this.push()
GitCommit(outcome) ==
    /\ gPc = "commit"
    /\ gCommitMsg # EMPTY
    /\ IF commitReturns(outcome)
       THEN /\ gPc' = "push"
            /\ gOps' = Append(gOps, "push")
            /\ gCmds' = Append(gCmds, "push")
            /\ gCommitted' = (outcome = "ok")
            /\ gHead' = IF outcome = "ok" THEN gHead + 1 ELSE gHead
            /\ UNCHANGED <<gAttempt, gRollbacks, gOutcome, gResult>>
       ELSE /\ AttemptFails
            /\ UNCHANGED <<gCommitted, gHead>>
    /\ gFailedAt' = IF outcome = "fail" THEN "commit" ELSE gFailedAt
    /\ UNCHANGED <<gEnabled, gAutoCommit, gEntry, gFiles, gMessage, gCommitMsg, gHasChanges,
                   gRbFailed, gPushFails, dVars, mVars, pVars, eVars>>

\* commit() throws 'Invalid commit message' without issuing a command
CommitRejectsMessage ==
    /\ gPc = "commit"
    /\ gCommitMsg = EMPTY
    /\ AttemptFails
    /\ gFailedAt' = "commit"
    /\ UNCHANGED <<gEnabled, gAutoCommit, gEntry, gFiles, gMessage, gCommitMsg, gHasChanges,
                   gCommitted, gHead, gRbFailed, gPushFails, dVars, mVars, pVars, eVars>>

\* git push completes
GitPush(ok) ==
    /\ gPc = "push"
    /\ IF ok
       THEN /\ GitReturn("completed")
            /\ gHead' = 0
            /\ UNCHANGED <<gAttempt, gOps, gCmds, gRollbacks, gPushFails>>
       ELSE /\ AttemptFails
            /\ gPushFails' = IF gCommitted THEN gPushFails + 1 ELSE gPushFails
            /\ UNCHANGED gHead
    /\ gFailedAt' = IF ok THEN gFailedAt ELSE "push"
    /\ UNCHANGED <<gEnabled, gAutoCommit, gEntry, gFiles, gMessage, gCommitMsg, gHasChanges, gCommitted,
                   gRbFailed, dVars, mVars, pVars, eVars>>

\* attemptRollback: git reset --soft HEAD~1 completes; its failure is
\* swallowed, and commitAndPush's catch block then throws
GitRollback(ok) ==
    /\ gPc = "rollback"
    /\ gHead' = IF ok THEN gHead - 1 ELSE gHead
    /\ gRbFailed' = (gRbFailed \/ ~ok)
    /\ AttemptThrows
    /\ UNCHANGED <<gEnabled, gAutoCommit, gEntry, gFiles, gMessage, gCommitMsg, gHasChanges, gCommitted,
                   gRollbacks, gPushFails, gFailedAt, dVars, mVars, pVars, eVars>>

\* withRetry: the backoff sleep ends and fn() is called again
GitRetry ==
    /\ gPc = "sleep"
    /\ EnterAttempt(gAttempt + 1)
    /\ UNCHANGED <<gEnabled, gAutoCommit, gEntry, gFiles, gMessage, gHead, gRollbacks,
                   gRbFailed, gPushFails, gOutcome, gResult, dVars, mVars, pVars, eVars>>

(***************************************************************************)
(* HealthStatus                                                            *)
(***************************************************************************)
UnhealthyAfter == 5
MaxErrorsKept == 10

LastNKeepsOldest(seq, n) ==
    IF Len(seq) > n THEN <<seq[1]>> \o SubSeq(seq, Len(seq) - n + 2, Len(seq)) ELSE seq

LastN(seq, n) == IF Len(seq) > n THEN SubSeq(seq, Len(seq) - n + 1, Len(seq)) ELSE seq

HealthReset ==
    [healthy |-> TRUE, lastCheck |-> 0, lastSuccess |-> 0,
     lastIpChange |-> [set |-> FALSE, oldIp |-> EMPTY, newIp |-> EMPTY],
     errorCount |-> 0, totalChecks |-> 0, errors |-> <<>>]

\* Date.now() is the number of the check being recorded
recordCheckOffByOne(st, success, message) ==
    LET now == st.totalChecks + 1
        st1 == [st EXCEPT !.lastCheck = now, !.totalChecks = now]
    IN IF success
       THEN [st1 EXCEPT !.lastSuccess = now,
                        !.healthy = TRUE,
                        !.errorCount = 0,
                        !.errors = IF st.errorCount > 0 THEN <<>> ELSE st.errors]
       ELSE [st1 EXCEPT !.errorCount = st.errorCount + 1,
                        !.healthy = (st.errorCount + 1 <= UnhealthyAfter),
                        !.errors = IF message # "none"
                                   THEN LastN(Append(st.errors, [timestamp |-> now, message |-> message]),
                                              MaxErrorsKept)
                                   ELSE st.errors]

recordCheckKeepsErrors(st, success, message) ==
    LET now == st.totalChecks + 1
        st1 == [st EXCEPT !.lastCheck = now, !.totalChecks = now]
    IN IF success
       THEN [st1 EXCEPT !.lastSuccess = now,
                        !.healthy = TRUE,
                        !.errorCount = 0]
       ELSE [st1 EXCEPT !.errorCount = st.errorCount + 1,
                        !.healthy = (st.errorCount + 1 < UnhealthyAfter),
                        !.errors = IF message # "none"
                                   THEN LastN(Append(st.errors, [timestamp |-> now, message |-> message]),
                                              MaxErrorsKept)
                                   ELSE st.errors]

recordCheck(st, success, message) ==
    LET now == st.totalChecks + 1
        st1 == [st EXCEPT !.lastCheck = now, !.totalChecks = now]
    IN IF success
       THEN [st1 EXCEPT !.lastSuccess = now,
                        !.healthy = TRUE,
                        !.errorCount = 0,
                        !.errors = IF st.errorCount > 0 THEN <<>> ELSE st.errors]
       ELSE [st1 EXCEPT !.errorCount = st.errorCount + 1,
                        !.healthy = (st.errorCount + 1 < UnhealthyAfter),
                        !.errors = IF message # "none"
                                   THEN LastN(Append(st.errors, [timestamp |-> now, message |-> message]),
                                              MaxErrorsKept)
                                   ELSE st.errors]

recordIpChange(st, oldIp, newIp) ==
    [st EXCEPT !.lastIpChange = [set |-> TRUE, oldIp |-> oldIp, newIp |-> newIp]]

MaxChecks == 12     \* recordCheck calls on one HealthStatus object

\* a caller records the outcome of a check, with or without an error object
recordCheck_Call(success, message) ==
    /\ health.totalChecks < MaxChecks
    /\ health' = recordCheck(health, success, message)
    /\ UNCHANGED <<isRunning, intervalId, timeoutId, file, cycles, started,
                   startPc, procAlive, unhandled, timerFailures, stopped, simple, timers, validation, dVars, gVars, pVars, eVars>>

\* a caller records an address change
recordIpChange_Call(oldIp, newIp) ==
    /\ health' = recordIpChange(health, oldIp, newIp)
    /\ UNCHANGED <<isRunning, intervalId, timeoutId, file, cycles, started,
                   startPc, procAlive, unhandled, timerFailures, stopped, simple, timers, validation, dVars, gVars, pVars, eVars>>

(***************************************************************************)
(* IpMonitorService: one check cycle (checkAndUpdateIp)                    *)
(***************************************************************************)
MaxCycles == 2      \* executions of checkAndUpdateIp that can overlap
MaxRuns == 3        \* executions of checkAndUpdateIp started in one behaviour

Slots == 1..MaxCycles
NoTime == 0 - 1     \* the value of a time that is not set
NoError == <<>>     \* no error was thrown
NoStatus == [remaining |-> NoTime, resetTime |-> NoTime]
NoAnswer == [at |-> NoTime, ok |-> FALSE]
MaxClock == 8       \* no call is made and no time passes idly after this time

\* addresses the host can have
PublicAddrs == {IP_A, IP_B, IP_V6_FULL}
\* tokens the strategy that answers hands to getPublicIp's validation
DetectTokens == PublicAddrs \cup {BAD_OCTET}
\* values of the 'crypto-web-tool' key in the remote document
RemoteTokens == {IP_A, IP_B, BAD_OCTET, EMPTY}
\* values of the 'crypto-web-tool' key in the local record file at start-up
FileTokens == {IP_A, IP_B, BAD_OCTET, EMPTY}

\* the record file is missing; `written` tells that this program wrote it
NoFile == [exists |-> FALSE, ip |-> EMPTY, written |-> FALSE]

\* origin: who called checkAndUpdateIp
\*   "initial" performInitialCheck, "timer" the debounced timer callback,
\*   "manual" forceCheck, "direct" a caller that holds the promise
\* wrote: updateLocalConfig wrote the file; gitCalled: commitIpChange was
\* called, commitMsg: the message it hands to git commit, gitFailed: it threw;
\* notes: the notifications requested from the telegram service, in order
IdleCycle ==
    [pc |-> "idle", origin |-> "none", localIp |-> EMPTY, publicIp |-> EMPTY,
     remoteIp |-> EMPTY, remoteFailed |-> FALSE, result |-> "none",
     wrote |-> FALSE, gitCalled |-> FALSE, gitFailed |-> FALSE,
     commitMsg |-> EMPTY, notes |-> <<>>]

InFlight(c) == cycles[c].pc \in {"read", "detect", "remote", "write", "git"}

\* a notification is requested from the telegram service; the simple variant
\* of the monitor has no notifier
Notify(notes, kind) == IF simple THEN notes ELSE Append(notes, kind)

needsUpdateLocalOnly(localIp, publicIp, remoteIp) == localIp # publicIp

needsUpdate(localIp, publicIp, remoteIp) ==
    localIp # publicIp \/ remoteIp # publicIp

\* the catch block around getRemoteIp
remoteFallbackNone(localIp) == EMPTY

remoteFallback(localIp) == localIp

\* checkAndUpdateIp is called: it runs up to its first await (the file read)
BeginCycle(origin) ==
    /\ started < MaxRuns
    /\ \E c \in Slots :
          /\ ~InFlight(c)
          /\ \A d \in Slots : d < c => InFlight(d)
          /\ cycles' = [cycles EXCEPT ![c] = [IdleCycle EXCEPT !.pc = "read", !.origin = origin]]
    /\ started' = started + 1

\* The promise of cycle c settles, with `h` the health status the cycle
\* leaves and `end` the settled cycle. What runs next is the continuation of
\* whoever holds the promise:
\*   performInitialCheck swallows a failure and start() goes on with
\*     startPeriodicMonitoring, isRunning = true, recordCheck(true);
\*   the route handler of forceCheck answers 200 or 500;
\*   the debounce callback dropped the promise: a rejection is an
\*     unhandledRejection, whose handler stops the service and exits;
\*   a direct caller keeps the settled promise.
Settle(c, h, end) ==
    LET origin == cycles[c].origin
        failed == end.pc = "rejected"
    IN /\ cycles' = [cycles EXCEPT ![c] = IF origin = "direct" THEN end ELSE IdleCycle]
       /\ health' = IF origin = "initial" THEN recordCheck(h, TRUE, "none") ELSE h
       /\ startPc' = IF origin = "initial" THEN "idle" ELSE startPc
       /\ IF origin = "initial"
          THEN isRunning' = TRUE /\ intervalId' = TRUE
          ELSE IF origin = "timer" /\ failed
               THEN isRunning' = FALSE /\ intervalId' = FALSE
               ELSE UNCHANGED <<isRunning, intervalId>>
       /\ unhandled' = (unhandled \/ (origin = "timer" /\ failed))
       /\ procAlive' = (procAlive /\ ~(origin = "timer" /\ failed))
       /\ timerFailures' = IF origin = "timer" /\ failed
                           THEN timerFailures + 1 ELSE timerFailures
       /\ timers' = IF origin = "initial" THEN timers + 1
                    ELSE IF origin = "timer" /\ failed /\ intervalId THEN timers - 1
                    ELSE timers
       /\ UNCHANGED <<stopped, simple, validation>>

\* the catch block of checkAndUpdateIp: recordCheck(false, error);
\* notifyError; throw
CycleFailsUnrecorded(c, message) ==
    Settle(c, health,
           [cycles[c] EXCEPT !.pc = "rejected", !.result = "error",
                             !.notes = Notify(@, "error")])

CycleFails(c, message) ==
    Settle(c, recordCheck(health, FALSE, message),
           [cycles[c] EXCEPT !.pc = "rejected", !.result = "error",
                             !.notes = Notify(@, "error")])

\* a step of cycle c that neither ends it nor touches the service
CycleGoesOn(c, next) ==
    /\ cycles' = [cycles EXCEPT ![c] = next]
    /\ UNCHANGED <<isRunning, intervalId, health, startPc, procAlive, unhandled,
                   timerFailures, stopped, simple, timers, validation>>

\* readLocalIp completes
ReadLocal(c, io) ==
    /\ procAlive
    /\ cycles[c].pc = "read"
    /\ IF io /\ file.exists /\ file.ip # EMPTY /\ isValidIp(file.ip)
       THEN CycleGoesOn(c, [cycles[c] EXCEPT !.pc = "detect", !.localIp = file.ip])
       ELSE CycleFails(c, "read")
    /\ UNCHANGED <<timeoutId, file, started, dVars, gVars, pVars, eVars>>

\* ipDetection.getPublicIp() completes: `ok` when a strategy answered, with
\* token `tok`; the call returns the token only when it is a valid address
\* and throws otherwise
DetectDone(c, ok, tok) ==
    /\ procAlive
    /\ cycles[c].pc = "detect"
    /\ IF ok /\ isValidIp(tok)
       THEN CycleGoesOn(c, [cycles[c] EXCEPT !.pc = "remote", !.publicIp = tok])
       ELSE CycleFails(c, "detect")
    /\ UNCHANGED <<timeoutId, file, started, dVars, gVars, pVars, eVars>>

\* the branch of an unchanged address: recordCheck(true); return
\* {updated: false, ...}
CycleUnchangedRecordsChange(c, seen) ==
    Settle(c, recordCheck(recordIpChange(health, seen.localIp, seen.publicIp), TRUE, "none"),
           [seen EXCEPT !.pc = "resolved", !.result = "unchanged"])

CycleUnchanged(c, seen) ==
    Settle(c, recordCheck(health, TRUE, "none"),
           [seen EXCEPT !.pc = "resolved", !.result = "unchanged"])

\* ipDetection.getRemoteIp() completes (transport result `ok`, document value
\* `tok`), then the decision; an unchanged address returns, a changed one
\* goes on with notifyIpChange and updateLocalConfig
RemoteDone(c, ok, tok) ==
    /\ procAlive
    /\ cycles[c].pc = "remote"
    /\ LET fetched == ok /\ tok # EMPTY /\ isValidIp(tok)
           remoteIp == IF fetched THEN tok ELSE remoteFallback(cycles[c].localIp)
           seen == [cycles[c] EXCEPT !.remoteIp = remoteIp, !.remoteFailed = ~fetched]
       IN IF ~needsUpdate(cycles[c].localIp, cycles[c].publicIp, remoteIp)
          THEN CycleUnchanged(c, seen)
          ELSE CycleGoesOn(c, [seen EXCEPT !.pc = "write",
                                           !.notes = Notify(@, "ip_change")])
    /\ UNCHANGED <<timeoutId, file, started, dVars, gVars, pVars, eVars>>

\* the tail of checkAndUpdateIp after the update: recordIpChange,
\* recordCheck(true), notifyIpUpdateSuccess, return {updated: true, ...}
CycleUpdated(c, cyc) ==
    Settle(c, recordCheck(recordIpChange(health, cyc.localIp, cyc.publicIp),
                          TRUE, "none"),
           [cyc EXCEPT !.pc = "resolved", !.result = "updated",
                       !.notes = Notify(@, "success")])

\* after a successful updateLocalConfig: with git enabled commitIpChange is
\* called with the new and the old address
AfterWrite(c, cyc) ==
    IF gEnabled
       THEN CycleGoesOn(c, [cyc EXCEPT
               !.pc = "git",
               !.gitCalled = TRUE,
               !.commitMsg = sanitizeGitMessage(commitMessage(cyc.publicIp, cyc.localIp))])
       ELSE CycleUpdated(c, cyc)

WriteLocalFailureIgnored(c, ok) ==
    /\ procAlive
    /\ cycles[c].pc = "write"
    /\ file' = IF ok THEN [exists |-> TRUE, ip |-> cycles[c].publicIp, written |-> TRUE]
                     ELSE file
    /\ AfterWrite(c, [cycles[c] EXCEPT !.wrote = ok])
    /\ UNCHANGED <<timeoutId, started, dVars, gVars, pVars, eVars>>

\* updateLocalConfig completes (the existing keys are read and kept; the
\* address key is replaced)
WriteLocal(c, ok) ==
    /\ procAlive
    /\ cycles[c].pc = "write"
    /\ IF ok
       THEN /\ file' = [exists |-> TRUE, ip |-> cycles[c].publicIp, written |-> TRUE]
            /\ AfterWrite(c, [cycles[c] EXCEPT !.wrote = TRUE])
       ELSE /\ CycleFails(c, "write")
            /\ UNCHANGED file
    /\ UNCHANGED <<timeoutId, started, dVars, gVars, pVars, eVars>>

GitDoneFailureAborts(c, ok) ==
    /\ procAlive
    /\ cycles[c].pc = "git"
    /\ IF ok
       THEN CycleUpdated(c, cycles[c])
       ELSE CycleFails(c, "git")
    /\ UNCHANGED <<timeoutId, file, started, dVars, gVars, pVars, eVars>>

\* this.commitIpChange completes: gitService.commitIpChange returned, or it
\* threw and the wrapper caught the error and asked for an error notification
GitDoneStep(c, ok) ==
    /\ procAlive
    /\ cycles[c].pc = "git"
    /\ CycleUpdated(c, [cycles[c] EXCEPT !.gitFailed = ~ok,
                                         !.notes = IF ok THEN @ ELSE Notify(@, "error")])
    /\ UNCHANGED <<timeoutId, file, started, dVars, gVars, pVars>>

GitDone(c, ok) == GitDoneStep(c, ok) /\ UNCHANGED eVars

\* commitIpChange pushed the record and the remote mirror has come to report
\* what was pushed
PublishDone(c) ==
    /\ GitDoneStep(c, TRUE)
    /\ remoteDoc' = cycles[c].publicIp
    /\ UNCHANGED <<clock, bVars, wVars, lVars>>

\* a caller calls checkAndUpdateIp() itself and awaits the result before it
\* calls again
checkAndUpdateIp_Call ==
    /\ procAlive
    /\ startPc = "idle"
    /\ ~isRunning
    /\ \A c \in Slots : ~InFlight(c)
    /\ BeginCycle("direct")
    /\ UNCHANGED <<isRunning, intervalId, timeoutId, health, file, startPc,
                   procAlive, unhandled, timerFailures, stopped, simple, timers, validation, dVars, gVars, pVars, eVars>>

(***************************************************************************)
(* IpMonitorService: lifecycle, triggers, and the process around it        *)
(***************************************************************************)
\* start() is called; the notifying variant returns at once on a running
\* service, the simple variant has no such guard
start_Call ==
    /\ procAlive
    /\ startPc = "idle"
    /\ simple \/ ~isRunning
    /\ startPc' = "validateIp"
    /\ stopped' = FALSE
    /\ validation' = "none"
    /\ UNCHANGED <<isRunning, intervalId, timeoutId, health, file, cycles, started,
                   procAlive, unhandled, timerFailures, simple, timers, dVars, gVars, pVars, eVars>>

\* the catch block of start(): recordCheck(false, error); throw. The caller
\* (main / Application.start) logs the error and exits the process.
StartFails ==
    /\ health' = recordCheck(health, FALSE, "start")
    /\ startPc' = "failed"
    /\ procAlive' = FALSE

\* validateServices: ipDetection.validateService() completes
ValidateIp(ok) ==
    /\ procAlive
    /\ startPc = "validateIp"
    /\ IF ok
       THEN /\ startPc' = "validateGit"
            /\ UNCHANGED <<health, procAlive>>
       ELSE StartFails
    /\ validation' = IF ok THEN validation ELSE "ipFailed"
    /\ UNCHANGED <<isRunning, intervalId, timeoutId, file, cycles, started,
                   unhandled, timerFailures, stopped, simple, timers, dVars, gVars, pVars, eVars>>

ValidateGitSkipsSeed(healthy) ==
    /\ procAlive
    /\ startPc = "validateGit"
    /\ IF ~healthy /\ gEnabled /\ ~simple
       THEN StartFails
       ELSE /\ startPc' = "telegram"
            /\ UNCHANGED <<health, procAlive>>
    /\ gEnabled' = IF ~healthy /\ simple THEN FALSE ELSE gEnabled
    /\ validation' = IF ~healthy /\ gEnabled THEN "gitFailed" ELSE validation
    /\ UNCHANGED <<isRunning, intervalId, timeoutId, file, cycles, started,
                   unhandled, timerFailures, stopped, simple, timers, dVars, gRun, pVars, eVars>>

\* validateServices: gitService.validateService() completes, then fs.access.
\* With git enabled and the validation unhealthy the notifying variant
\* throws; the simple variant warns, sets config.git.enabled = false and goes
\* on
ValidateGit(healthy) ==
    /\ procAlive
    /\ startPc = "validateGit"
    /\ IF ~healthy /\ gEnabled /\ ~simple
       THEN StartFails
       ELSE /\ startPc' = IF file.exists THEN "telegram" ELSE "seed"
            /\ UNCHANGED <<health, procAlive>>
    /\ gEnabled' = IF ~healthy /\ simple THEN FALSE ELSE gEnabled
    /\ validation' = IF ~healthy /\ gEnabled THEN "gitFailed" ELSE validation
    /\ UNCHANGED <<isRunning, intervalId, timeoutId, file, cycles, started,
                   unhandled, timerFailures, stopped, simple, timers, dVars, gRun, pVars, eVars>>

\* createInitialConfig: getPublicIp (a strategy answered with token `tok`,
\* returned only when valid) and the write of the initial record
SeedConfig(ok, tok) ==
    /\ procAlive
    /\ startPc = "seed"
    /\ IF ok /\ isValidIp(tok)
       THEN /\ file' = [exists |-> TRUE, ip |-> tok, written |-> TRUE]
            /\ startPc' = "telegram"
            /\ UNCHANGED <<health, procAlive>>
       ELSE /\ StartFails
            /\ UNCHANGED file
    /\ UNCHANGED <<isRunning, intervalId, timeoutId, cycles, started,
                   unhandled, timerFailures, stopped, simple, timers, validation, dVars, gVars, pVars, eVars>>

\* telegramService.start() and notifyServiceStart() complete (the simple
\* variant has neither, nothing can fail here); then performInitialCheck
\* calls checkAndUpdateIp
TelegramStarted(ok) ==
    /\ procAlive
    /\ startPc = "telegram"
    /\ simple => ok
    /\ IF ok
       THEN /\ BeginCycle("initial")
            /\ startPc' = "initial"
            /\ UNCHANGED <<health, procAlive>>
       ELSE /\ StartFails
            /\ UNCHANGED <<cycles, started>>
    /\ UNCHANGED <<isRunning, intervalId, timeoutId, file,
                   unhandled, timerFailures, stopped, simple, timers, validation, dVars, gVars, pVars, eVars>>

\* stop(reason): isRunning = false, clearInterval(intervalId), and in the
\* notifying variant telegramService.stop(reason); then it returns. It
\* awaits no check cycle and leaves the timeout of the debounce alone.
stop ==
    /\ procAlive
    /\ isRunning \/ intervalId
    /\ isRunning' = FALSE
    /\ intervalId' = FALSE
    /\ timers' = IF intervalId THEN timers - 1 ELSE timers
    /\ stopped' = TRUE
    /\ UNCHANGED <<timeoutId, health, file, cycles, started, startPc,
                   procAlive, unhandled, timerFailures, simple, validation, dVars, gVars, pVars, eVars>>

\* the setInterval callback: this.debouncedCheck(), that is clearTimeout and
\* setTimeout
TimerTick ==
    /\ procAlive
    /\ timers > 0
    /\ timeoutId' = TRUE
    /\ UNCHANGED <<isRunning, intervalId, health, file, cycles, started, startPc,
                   procAlive, unhandled, timerFailures, stopped, simple, timers, validation, dVars, gVars, pVars, eVars>>

\* the debounce timeout fires: func.apply(null, args) calls checkAndUpdateIp
\* and drops the promise
DebounceFire ==
    /\ procAlive
    /\ timeoutId
    /\ timeoutId' = FALSE
    /\ BeginCycle("timer")
    /\ UNCHANGED <<isRunning, intervalId, health, file, startPc,
                   procAlive, unhandled, timerFailures, stopped, simple, timers, validation, dVars, gVars, pVars, eVars>>

\* forceCheck() (POST /api/check) on a running service; the simple variant
\* has no such method
forceCheck ==
    /\ procAlive
    /\ ~simple
    /\ isRunning
    /\ BeginCycle("manual")
    /\ UNCHANGED <<isRunning, intervalId, timeoutId, health, file, startPc,
                   procAlive, unhandled, timerFailures, stopped, simple, timers, validation, dVars, gVars, pVars, eVars>>

(***************************************************************************)
(* Specifications                                                          *)
(***************************************************************************)
InitDetect ==
    /\ dPc = "idle"
    /\ dIdx = 1
    /\ dAttempt = 1
    /\ dErrors = <<>>
    /\ dResult = NoResult
    /\ dCalls = [p \in Priorities |-> 0]
    /\ dOut = [p \in Priorities |-> EMPTY]

InitGit ==
    /\ gEntry = "commitIpChange"
    /\ gFiles = <<>>
    /\ gMessage = EMPTY
    /\ gCommitMsg = EMPTY
    /\ gPc = "idle"
    /\ gAttempt = 1
    /\ gOps = <<>>
    /\ gCmds = <<>>
    /\ gHasChanges = FALSE
    /\ gCommitted = FALSE
    /\ gHead = 0
    /\ gRollbacks = 0
    /\ gRbFailed = FALSE
    /\ gPushFails = 0
    /\ gFailedAt = "none"
    /\ gOutcome = "none"
    /\ gResult = NoResult

\* no time has passed and no timer was created
InitEnv ==
    /\ clock = 0
    /\ timeouts = {}
    /\ handle = NoTime
    /\ nextTickAt = NoTime
    /\ lastCallAt = NoTime
    /\ ticks = 0
    /\ otherCalls = 0
    /\ wPc = "idle"
    /\ wMaxRetries = 1
    /\ wBaseDelay = 1
    /\ wAttempt = 0
    /\ wDelay = 0
    /\ wTimes = <<>>
    /\ wLastMessage = EMPTY
    /\ wError = NoError
    /\ calls = <<>>
    /\ allowed = NoAnswer
    /\ status = NoStatus
    /\ admitted = <<>>
    /\ resets = 0

InitMonitor ==
    /\ isRunning = FALSE
    /\ intervalId = FALSE
    /\ timeoutId = FALSE
    /\ health = HealthReset
    /\ file \in ({[exists |-> TRUE, ip |-> t, written |-> FALSE] : t \in FileTokens}
                 \cup {NoFile})
    /\ cycles = [c \in Slots |-> IdleCycle]
    /\ started = 0
    /\ startPc = "idle"
    /\ procAlive = TRUE
    /\ unhandled = FALSE
    /\ timerFailures = 0
    /\ stopped = FALSE
    /\ timers = 0
    /\ validation = "none"
    /\ remoteDoc = EMPTY
    /\ InitEnv
    /\ vIn = [sep |-> "none", segs |-> <<>>, value |-> EMPTY]
    /\ vOut = FALSE

\* the monitor reads config.git.enabled only; the service is either variant
Init ==
    /\ InitDetect /\ InitGit /\ InitMonitor
    /\ gEnabled \in BOOLEAN /\ gAutoCommit = TRUE
    /\ simple \in BOOLEAN

\* a constructed service of the notifying variant
InitCycle ==
    /\ InitDetect /\ InitGit /\ InitMonitor
    /\ gEnabled \in BOOLEAN /\ gAutoCommit = TRUE
    /\ simple = FALSE

\* the steps of a check cycle, whoever started it; `addrs` are the addresses
\* detection can report and `remotes` the values the remote document can hold
CycleStep(addrs, remotes) ==
    \/ \E c \in Slots, io \in BOOLEAN : ReadLocal(c, io)
    \/ \E c \in Slots, ok \in BOOLEAN, tok \in addrs : DetectDone(c, ok, tok)
    \/ \E c \in Slots, ok \in BOOLEAN, tok \in remotes : RemoteDone(c, ok, tok)
    \/ \E c \in Slots, ok \in BOOLEAN : WriteLocal(c, ok)
    \/ \E c \in Slots, ok \in BOOLEAN : GitDone(c, ok)

\* The monitoring loop: start, stop, timer, debounce, manual triggers, with
\* overlapping cycles. The host's public address is IP_B throughout (a
\* strategy answers IP_B or an unusable token); the local record starts as
\* anything, the remote document holds IP_B or is unusable.
Next ==
    \/ start_Call
    \/ \E ok \in BOOLEAN : ValidateIp(ok)
    \/ \E ok \in BOOLEAN : ValidateGit(ok)
    \/ \E ok \in BOOLEAN, tok \in {IP_B, BAD_OCTET} : SeedConfig(ok, tok)
    \/ \E ok \in BOOLEAN : TelegramStarted(ok)
    \/ stop
    \/ TimerTick
    \/ DebounceFire
    \/ forceCheck
    \/ CycleStep({IP_B, BAD_OCTET}, {IP_B, EMPTY})

Spec == Init /\ [][Next]_vars

\* check cycles called one after another on a constructed service, over
\* every combination of local, public and remote address
NextCycle ==
    \/ checkAndUpdateIp_Call
    \/ CycleStep(DetectTokens, RemoteTokens)

SpecCycle == InitCycle /\ [][NextCycle]_vars

\* The settled environment of a running host: the public address stays
\* IP_B, the record file can be read and written, detection and the fetch
\* of the remote document succeed, git is enabled and every publish
\* succeeds; check cycles are called one after another.
NextConverge ==
    \/ checkAndUpdateIp_Call
    \/ \E c \in Slots : ReadLocal(c, TRUE)
    \/ \E c \in Slots : DetectDone(c, TRUE, IP_B)
    \/ \E c \in Slots : RemoteDone(c, TRUE, remoteDoc)
    \/ \E c \in Slots : WriteLocal(c, TRUE)
    \/ \E c \in Slots : PublishDone(c)

\* the record file exists (start() has seeded it or found it) and holds
\* any token; the remote mirror reports some valid address
InitConverge ==
    /\ InitDetect /\ InitGit
    /\ isRunning = FALSE /\ intervalId = FALSE /\ timeoutId = FALSE
    /\ health = HealthReset
    /\ file \in {[exists |-> TRUE, ip |-> t, written |-> FALSE] :
                   t \in FileTokens \cup {BAD_COUNT}}
    /\ cycles = [c \in Slots |-> IdleCycle]
    /\ started = 0 /\ startPc = "idle" /\ procAlive = TRUE
    /\ unhandled = FALSE /\ timerFailures = 0 /\ stopped = FALSE
    /\ timers = 0 /\ validation = "none"
    /\ vIn = [sep |-> "none", segs |-> <<>>, value |-> EMPTY] /\ vOut = FALSE
    /\ gEnabled = TRUE /\ gAutoCommit = TRUE
    /\ simple \in BOOLEAN
    /\ remoteDoc \in {IP_A, IP_B}
    /\ InitEnv

\* cycles keep being called and every step of a cycle ends
SpecConverge == InitConverge /\ [][NextConverge]_vars /\ WF_vars(NextConverge)

\* ---- withRetry in time ----
MaxRetriesArg == 4  \* largest maxRetries argument
MaxBaseDelay == 2   \* largest baseDelay argument, in units of the model
FailureMessages == {"timeout", "refused"}

\* the delay grows by baseDelay with every attempt
backoffLinear(baseDelay, attempt) == baseDelay * attempt

\* baseDelay * Math.pow(2, attempt - 1)
backoff(baseDelay, attempt) == baseDelay * 2^(attempt - 1)

\* the template literal of the error withRetry throws, as its parts
retryError(maxRetries, message) ==
    <<"Failed after ", maxRetries, " attempts: ", message>>

\* withRetry(fn, maxRetries, baseDelay) is called: the loop starts with
\* attempt = 1 and calls fn
withRetry_Call(maxRetries, baseDelay) ==
    /\ wPc \in {"idle", "returned", "thrown"}
    /\ wPc' = "attempt"
    /\ wMaxRetries' = maxRetries
    /\ wBaseDelay' = baseDelay
    /\ wAttempt' = 1
    /\ wDelay' = 0
    /\ wTimes' = <<clock>>
    /\ wLastMessage' = EMPTY
    /\ wError' = NoError
    /\ UNCHANGED <<dVars, gVars, mVars, pVars, remoteDoc, clock, bVars, lVars>>

\* fn resolves: return await fn()
FnResolves ==
    /\ wPc = "attempt"
    /\ wPc' = "returned"
    /\ UNCHANGED <<wMaxRetries, wBaseDelay, wAttempt, wDelay, wTimes,
                   wLastMessage, wError>>
    /\ UNCHANGED <<dVars, gVars, mVars, pVars, remoteDoc, clock, bVars, lVars>>

\* fn rejects with an error whose message is `message`: the catch block
FnRejects(message) ==
    /\ wPc = "attempt"
    /\ wLastMessage' = message
    /\ IF withRetryLast(wAttempt, wMaxRetries)
       THEN /\ wPc' = "thrown"
            /\ wError' = retryError(wMaxRetries, message)
            /\ UNCHANGED wDelay
       ELSE /\ wPc' = "sleeping"
            /\ wDelay' = backoff(wBaseDelay, wAttempt)
            /\ UNCHANGED wError
    /\ UNCHANGED <<wMaxRetries, wBaseDelay, wAttempt, wTimes>>
    /\ UNCHANGED <<dVars, gVars, mVars, pVars, remoteDoc, clock, bVars, lVars>>

\* await sleep(delay) ends, delay later: the loop increments attempt and
\* calls fn
SleepEnds ==
    /\ wPc = "sleeping"
    /\ wPc' = "attempt"
    /\ clock' = clock + wDelay
    /\ wAttempt' = wAttempt + 1
    /\ wTimes' = Append(wTimes, clock')
    /\ UNCHANGED <<wMaxRetries, wBaseDelay, wDelay, wLastMessage, wError>>
    /\ UNCHANGED <<dVars, gVars, mVars, pVars, remoteDoc, bVars, lVars>>

\* calls of withRetry one after another, with any maxRetries >= 1 and any
\* baseDelay, on a function that resolves or rejects at each call
NextRetry ==
    \/ \E n \in 1..MaxRetriesArg, d \in 1..MaxBaseDelay :
          clock < MaxClock /\ withRetry_Call(n, d)
    \/ FnResolves
    \/ \E message \in FailureMessages : FnRejects(message)
    \/ SleepEnds

InitRetryOnly ==
    /\ InitDetect /\ InitGit /\ InitMonitor
    /\ gEnabled = TRUE /\ gAutoCommit = TRUE
    /\ file = NoFile
    /\ simple = FALSE

SpecRetry == InitRetryOnly /\ [][NextRetry]_vars

\* ---- the debounced check in time ----
DebounceDelay == 2  \* config.debounceDelay, in units of the model
CheckInterval == 3  \* config.checkInterval, in units of the model
MaxOtherCalls == 3  \* calls of the debounced function not made by the interval

\* clearTimeout(timeoutId) leaves the pending timers alone
clearTimeoutKeeps(pending, h) == pending

\* clearTimeout(timeoutId): the timer the handle names is no longer pending
clearTimeout(pending, h) == pending \ {h}

\* setTimeout(..., delay) called at `now` is due at once
debounceDueAtOnce(now) == now

\* setTimeout(..., delay) called at `now` is due delay later
debounceDue(now) == now + DebounceDelay

\* one call of the function debounce returns
debounced(now) ==
    /\ timeouts' = clearTimeout(timeouts, handle) \cup {debounceDue(now)}
    /\ handle' = debounceDue(now)
    /\ timeoutId' = TRUE
    /\ lastCallAt' = now

\* the setInterval timer is due: its callback calls this.debouncedCheck()
IntervalFires ==
    /\ procAlive
    /\ timers > 0
    /\ clock = nextTickAt
    /\ nextTickAt' = clock + CheckInterval
    /\ ticks' = ticks + 1
    /\ debounced(clock)
    /\ UNCHANGED <<isRunning, intervalId, health, file, cycles, started, startPc,
                   procAlive, unhandled, timerFailures, stopped, simple, timers,
                   validation, dVars, gVars, pVars, remoteDoc, clock, otherCalls, wVars, lVars>>

\* this.debouncedCheck() called by anyone but the interval
debouncedCheck_Call ==
    /\ procAlive
    /\ otherCalls < MaxOtherCalls
    /\ otherCalls' = otherCalls + 1
    /\ debounced(clock)
    /\ UNCHANGED <<isRunning, intervalId, health, file, cycles, started, startPc,
                   procAlive, unhandled, timerFailures, stopped, simple, timers,
                   validation, dVars, gVars, pVars, remoteDoc, clock, nextTickAt,
                   ticks, wVars, lVars>>

\* a pending setTimeout timer is due: func.apply(null, args) calls
\* checkAndUpdateIp and drops the promise
TimeoutFires ==
    /\ procAlive
    /\ \E t \in timeouts : t <= clock /\ timeouts' = timeouts \ {t}
    /\ timeoutId' = (timeouts' # {})
    /\ BeginCycle("timer")
    /\ UNCHANGED <<isRunning, intervalId, health, file, startPc,
                   procAlive, unhandled, timerFailures, stopped, simple, timers,
                   validation, dVars, gVars, pVars, remoteDoc, clock, handle,
                   nextTickAt, lastCallAt, ticks, otherCalls, wVars, lVars>>

\* time passes when no timer is due
TimePasses ==
    /\ clock < MaxClock
    /\ \A t \in timeouts : t > clock
    /\ timers > 0 => nextTickAt > clock
    /\ clock' = clock + 1
    /\ UNCHANGED <<dVars, gVars, mVars, pVars, remoteDoc, bVars, wVars, lVars>>

\* ---- RateLimiter in time ----
maxCalls == 2       \* this.maxCalls
windowMs == 3       \* this.windowMs, in units of the model
MaxResets == 1      \* reset() calls in one behaviour
LimiterHorizon == 4 \* the limiter is called up to this time

\* a call made exactly windowMs ago still counts
inWindowInclusive(now, callTime) == now - callTime <= windowMs

\* the filter predicate: now - callTime < this.windowMs
inWindow(now, callTime) == now - callTime < windowMs

\* this.calls.filter(callTime => now - callTime < this.windowMs)
filterCalls(now) == SelectSeq(calls, LAMBDA callTime : inWindow(now, callTime))

\* isAllowed(), with Date.now() the time
isAllowed ==
    LET now == clock
        kept == filterCalls(now)
    IN /\ IF Len(kept) < maxCalls
          THEN /\ calls' = Append(kept, now)
               /\ allowed' = [at |-> now, ok |-> TRUE]
               /\ admitted' = Append(admitted, [at |-> now, epoch |-> resets])
          ELSE /\ calls' = kept
               /\ allowed' = [at |-> now, ok |-> FALSE]
               /\ UNCHANGED admitted
       /\ UNCHANGED <<status, resets>>
       /\ UNCHANGED <<dVars, gVars, mVars, pVars, remoteDoc, clock, bVars, wVars>>

\* reset()
reset ==
    /\ resets < MaxResets
    /\ calls' = <<>>
    /\ resets' = resets + 1
    /\ UNCHANGED <<allowed, status, admitted>>
    /\ UNCHANGED <<dVars, gVars, mVars, pVars, remoteDoc, clock, bVars, wVars>>

\* getStatus(), with Date.now() the time
getStatus ==
    LET now == clock
        kept == filterCalls(now)
        left == maxCalls - Len(kept)
    IN /\ calls' = kept
       /\ status' = [remaining |-> IF left > 0 THEN left ELSE 0,
                     resetTime |-> IF Len(kept) > 0 THEN kept[1] + windowMs ELSE now]
       /\ UNCHANGED <<allowed, admitted, resets>>
       /\ UNCHANGED <<dVars, gVars, mVars, pVars, remoteDoc, clock, bVars, wVars>>

\* any sequence of isAllowed, getStatus and reset calls at any times
NextLimiter ==
    \/ isAllowed
    \/ getStatus
    \/ reset
    \/ clock < LimiterHorizon /\ TimePasses

InitLimiterOnly ==
    /\ InitDetect /\ InitGit /\ InitMonitor
    /\ gEnabled = TRUE /\ gAutoCommit = TRUE
    /\ file = NoFile
    /\ simple = FALSE

SpecLimiter == InitLimiterOnly /\ [][NextLimiter]_vars

\* A started service in time: the interval timer was created at time 0, the
\* record, the public address and the remote document agree, and every
\* step of a cycle succeeds.
NextDebounce ==
    \/ IntervalFires
    \/ debouncedCheck_Call
    \/ TimeoutFires
    \/ TimePasses
    \/ \E c \in Slots : ReadLocal(c, TRUE)
    \/ \E c \in Slots : DetectDone(c, TRUE, IP_B)
    \/ \E c \in Slots : RemoteDone(c, TRUE, IP_B)

InitDebounce ==
    /\ InitDetect /\ InitGit
    /\ isRunning = TRUE /\ intervalId = TRUE /\ timeoutId = FALSE
    /\ health = recordCheck(recordCheck(HealthReset, TRUE, "none"), TRUE, "none")
    /\ file = [exists |-> TRUE, ip |-> IP_B, written |-> FALSE]
    /\ cycles = [c \in Slots |-> IdleCycle]
    /\ started = 0 /\ startPc = "idle" /\ procAlive = TRUE
    /\ unhandled = FALSE /\ timerFailures = 0 /\ stopped = FALSE
    /\ timers = 1 /\ validation = "none"
    /\ vIn = [sep |-> "none", segs |-> <<>>, value |-> EMPTY] /\ vOut = FALSE
    /\ gEnabled \in BOOLEAN /\ gAutoCommit = TRUE
    /\ simple \in BOOLEAN
    /\ remoteDoc = IP_B
    /\ clock = 0
    /\ timeouts = {}
    /\ handle = NoTime
    /\ nextTickAt = CheckInterval
    /\ lastCallAt = NoTime
    /\ ticks = 0
    /\ otherCalls = 0
    /\ wPc = "idle" /\ wMaxRetries = 1 /\ wBaseDelay = 1 /\ wAttempt = 0
    /\ wDelay = 0 /\ wTimes = <<>> /\ wLastMessage = EMPTY /\ wError = NoError
    /\ calls = <<>> /\ allowed = NoAnswer /\ status = NoStatus
    /\ admitted = <<>> /\ resets = 0

SpecDebounce == InitDebounce /\ [][NextDebounce]_vars


\* one getPublicIp call after another
NextDetect ==
    \/ getPublicIp_Call
    \/ MethodThrows
    \/ \E tok \in Tokens : MethodReturns(tok)

InitDetectOnly ==
    /\ InitDetect /\ InitGit /\ InitMonitor
    /\ gEnabled = TRUE /\ gAutoCommit = TRUE
    /\ file = NoFile
    /\ simple = FALSE

SpecDetect == InitDetectOnly /\ [][NextDetect]_vars

\* every external call of a strategy ends (each runs under a timeout) and
\* every backoff sleep ends
MethodEnds == MethodThrows \/ \E tok \in Tokens : MethodReturns(tok)

SpecDetectFair == InitDetectOnly /\ [][NextDetect]_vars /\ WF_vars(MethodEnds)

\* messages a caller hands to commitAndPush: plain, with characters the
\* shell reads, nothing but such characters, longer than the limit, missing
LongLength == 120
LongMessage ==
    [i \in 1..LongLength |-> IF i % 7 = 0 THEN "$" ELSE IF i % 5 = 0 THEN " " ELSE "x"]
GitMessages ==
    { <<"f", "i", "x">>,
      <<" ", "a", " ", "\t", "$", "(", "b", ")", ";", " ", "{", "c", "}", "[", "]",
        "|", "d", "&", "U+0060", "e", "\n", " ">>,
      <<"$", "(", ")", " ", "|">>,
      LongMessage,
      EMPTY }

\* one GitService call after another
NextGit ==
    \/ \E ip \in {IP_A, IP_V6_FULL}, oldIp \in {EMPTY, IP_V6_FULL} : commitIpChange_Call(ip, oldIp)
    \/ \E message \in GitMessages, files \in {<<>>, <<IpFile>>} : commitAndPush_Call(message, files)
    \/ \E ok \in BOOLEAN : GitPull(ok)
    \/ \E ok \in BOOLEAN, hasChanges \in BOOLEAN : GitStatus(ok, hasChanges)
    \/ \E ok \in BOOLEAN : GitBranch(ok)
    \/ \E ok \in BOOLEAN : GitAdd(ok)
    \/ \E outcome \in {"ok", "nothing", "fail"} : GitCommit(outcome)
    \/ CommitRejectsMessage
    \/ \E ok \in BOOLEAN : GitPush(ok)
    \/ \E ok \in BOOLEAN : GitRollback(ok)
    \/ GitRetry

InitGitOnly ==
    /\ InitDetect /\ InitGit /\ InitMonitor
    /\ gEnabled \in BOOLEAN /\ gAutoCommit \in BOOLEAN
    /\ file = NoFile
    /\ simple = FALSE

SpecGit == InitGitOnly /\ [][NextGit]_vars

\* every git command ends (executeCommand runs it under a timeout) and every
\* backoff sleep ends
SpecGitFair == InitGitOnly /\ [][NextGit]_vars /\ WF_vars(NextGit)

\* any sequence of calls on one HealthStatus object
NextHealth ==
    \/ \E success \in BOOLEAN, message \in {"none", "error"} : recordCheck_Call(success, message)
    \/ \E oldIp \in {IP_A}, newIp \in {IP_A, IP_B} : recordIpChange_Call(oldIp, newIp)

InitHealthOnly ==
    /\ InitDetect /\ InitGit /\ InitMonitor
    /\ gEnabled = TRUE /\ gAutoCommit = TRUE
    /\ file = NoFile
    /\ simple = FALSE

SpecHealth == InitHealthOnly /\ [][NextHealth]_vars

\* texts between the separators of the values handed to isValidIp
OctetTexts ==
    { <<"0">>, <<"9">>, <<"0", "0">>, <<"4", "2">>, <<"0", "0", "7">>, <<"0", "9", "9">>,
      <<"1", "9", "9">>, <<"2", "0", "0">>, <<"2", "4", "9">>, <<"2", "5", "0">>,
      <<"2", "5", "5">>, <<"2", "5", "6">>, <<"2", "6", "0">>, <<"3", "0", "0">>,
      <<"9", "9", "9">>, <<"0", "2", "5", "5">>, <<"1", "a">>, <<>>, <<" ", "1">>,
      <<"-", "1">> }

GroupTexts ==
    { <<"0">>, <<"f", "f">>, <<"F", "F", "F", "F">>, <<"a", "1", "B", "2">>,
      <<"1", "2", "3", "4", "5">>, <<"g">>, <<>>, <<"0", "0", "0", "0", "0">>,
      <<"1", " ">>, <<"0", "x", "1">> }

RECURSIVE Join(_, _)
Join(segs, sep) ==
    IF segs = <<>> THEN <<>>
    ELSE IF Len(segs) = 1 THEN segs[1]
    ELSE segs[1] \o <<sep>> \o Join(Tail(segs), sep)

Joined(segs, sep) == [sep |-> sep, segs |-> segs, value |-> Join(segs, sep)]

\* the values handed to isValidIp: dotted and colon-separated texts of
\* every kind and count, the empty string and a value that is no string
ValidIpInputs ==
    { Joined(<<a, <<"1">>, <<"2", "5", "5">>, b>>, ".") : a \in OctetTexts, b \in OctetTexts }
    \cup { Joined(<<<<"0">>, a, b, <<"1", "0">>>>, ".") : a \in OctetTexts, b \in OctetTexts }
    \cup { Joined([i \in 1..n |-> <<"1">>], ".") : n \in 1..9 }
    \cup { Joined(<<a, <<"0">>, <<"0">>, <<"0">>, <<"0">>, <<"0">>, <<"0">>, b>>, ":") :
             a \in GroupTexts, b \in GroupTexts }
    \cup { Joined(<<<<"2", "0", "0", "1">>, <<"d", "b", "8">>, <<"0">>, a, b, <<"0">>,
                    <<"A", "B">>, <<"1">>>>, ":") : a \in GroupTexts, b \in GroupTexts }
    \cup { Joined([i \in 1..n |-> <<"a">>], ":") : n \in 1..10 }
    \cup { [sep |-> "none", segs |-> <<>>, value |-> EMPTY],
           [sep |-> "none", segs |-> <<>>, value |-> NOT_STRING] }

\* one isValidIp call after another
NextValid ==
    \E input \in ValidIpInputs : isValidIp_Call(input)

InitValidOnly ==
    /\ InitDetect /\ InitGit /\ InitMonitor
    /\ gEnabled = TRUE /\ gAutoCommit = TRUE
    /\ file = NoFile
    /\ simple = FALSE

SpecValid == InitValidOnly /\ [][NextValid]_vars

(***************************************************************************)
(* Claims                                                                  *)
(***************************************************************************)
CycleDecided(c) ==
    cycles[c].pc \in {"write", "git"} \/ cycles[c].result \in {"unchanged", "updated"}
CycleTookUpdate(c) ==
    cycles[c].pc \in {"write", "git"} \/ cycles[c].result = "updated"

\* C1: in every check cycle the update decision equals (local != public) OR
\* (remote != public) for the three addresses the cycle read, and depends on
\* nothing else: the update is skipped exactly when the three are the same
\* string, and cycles with the same three addresses decide the same.
C1_DecisionIsLocalOrRemoteDiffers ==
    /\ \A c \in Slots :
          CycleDecided(c) =>
             /\ CycleTookUpdate(c) <=>
                   (cycles[c].localIp # cycles[c].publicIp
                    \/ cycles[c].remoteIp # cycles[c].publicIp)
             /\ cycles[c].result = "unchanged" <=>
                   (cycles[c].localIp = cycles[c].publicIp
                    /\ cycles[c].remoteIp = cycles[c].publicIp)
    /\ \A c, d \in Slots :
          (/\ CycleDecided(c) /\ CycleDecided(d)
           /\ cycles[c].localIp = cycles[d].localIp
           /\ cycles[c].publicIp = cycles[d].publicIp
           /\ cycles[c].remoteIp = cycles[d].remoteIp)
          => (CycleTookUpdate(c) <=> CycleTookUpdate(d))

\* a cycle updates although local and public agree, because the remote differs
C1_Witness ==
    \E c \in Slots :
       /\ cycles[c].result = "updated"
       /\ cycles[c].localIp = cycles[c].publicIp
       /\ cycles[c].remoteIp # cycles[c].publicIp
       /\ ~cycles[c].remoteFailed

WellFormedTokens == {IP_A, IP_B, IP_V6}

MethodByName(name) ==
    CHOOSE m \in {detectionMethods[i] : i \in 1..Len(detectionMethods)} : m.name = name

\* C2: getPublicIp tries the strategies in ascending priority order; when
\* strategies 1..k failed and strategy k+1 returns a valid address, the result
\* carries strategy k+1's name and exactly its output, and no strategy of
\* greater priority number was invoked in the call.
C2_FirstValidStrategyWins ==
    /\ \A p, q \in Priorities : (p < q /\ dCalls[q] > 0) => dCalls[p] > 0
    /\ dPc = "returned" =>
          LET k == MethodByName(dResult.method).priority
          IN /\ dResult.ip = dOut[k]
             /\ dCalls[k] >= 1
             /\ \A q \in Priorities : q > k => dCalls[q] = 0
             /\ \A p \in Priorities : p < k =>
                   /\ dCalls[p] >= 1
                   /\ \E i \in 1..Len(dErrors) :
                         dErrors[i].method = detectionMethods[p].name

\* strategies 1 and 2 failed, strategy 3 produced the result
C2_Witness ==
    /\ dPc = "returned"
    /\ dResult.method = "AWS CheckIP"
    /\ Len(dErrors) = 2
    /\ dResult.ip = IP_V6

\* C3: every result of getPublicIp carries a valid address; a strategy whose
\* token fails validation is counted as that strategy's failure only, the
\* chain goes on with the next strategy, and the token is never returned.
C3_OnlyValidatedAddressReturned ==
    /\ dPc = "returned" => dResult.ip \in WellFormedTokens
    /\ dPc \in {"running", "returned"} => Len(dErrors) = dIdx - 1
    /\ \A i \in 1..Len(dErrors) :
          dErrors[i].error = "invalid" =>
             /\ dOut[sortedMethods[i].priority] \notin WellFormedTokens
             /\ dErrors[i].method = sortedMethods[i].name

\* a strategy returned an invalid token and a later strategy then succeeded
C3_Witness ==
    /\ dPc = "returned"
    /\ \E i \in 1..Len(dErrors) :
          /\ dErrors[i].error = "invalid"
          /\ dOut[sortedMethods[i].priority] = BAD_OCTET

\* C4: when all N = 5 strategies fail in one getPublicIp call, the call fails
\* with exactly N per-strategy failure entries, one per strategy, in priority
\* order.
C4_AllFailedHasOneErrorPerStrategy ==
    dPc = "thrown" =>
       /\ Len(dErrors) = 5
       /\ Len(detectionMethods) = 5
       /\ \A i \in 1..Len(dErrors) :
             /\ dErrors[i].method = MethodByName(dErrors[i].method).name
             /\ MethodByName(dErrors[i].method).priority = i

\* all five failed, some by exhausted retries and some by an invalid token
C4_Witness ==
    /\ dPc = "thrown"
    /\ \E i \in 1..Len(dErrors) : dErrors[i].error = "invalid"
    /\ \E i \in 1..Len(dErrors) : dErrors[i].error = "retries"

\* C5: a failure of the remote fetch (transport error, missing key, invalid
\* address) never aborts a cycle and is never recorded as a failed check: the
\* cycle goes on with remote replaced by local, so that the decision is
\* needsUpdate = (local != public).
C5_RemoteFailureFallsBackToLocal ==
    [][\A c \in Slots :
          (cycles[c].pc = "remote" /\ cycles'[c].pc # "remote" /\ cycles'[c].remoteFailed)
          => /\ cycles'[c].pc \in {"write", "resolved"}
             /\ cycles'[c].remoteIp = cycles[c].localIp
             /\ (cycles'[c].pc = "write") <=> (cycles[c].localIp # cycles[c].publicIp)
             /\ health'.errorCount <= health.errorCount
             /\ Len(health'.errors) <= Len(health.errors)
             /\ health'.healthy \/ ~health.healthy]_vars

\* a cycle whose remote fetch failed completed as an unchanged check
C5_Witness ==
    \E c \in Slots :
       /\ cycles[c].remoteFailed
       /\ cycles[c].result = "unchanged"
       /\ cycles[c].localIp = IP_B

\* C6: at no time are two check cycles in flight together.
C6_AtMostOneCycleInFlight ==
    Cardinality({c \in Slots : InFlight(c)}) <= 1

\* C7: a trigger (timer tick or manual trigger) that arrives while a cycle is
\* in flight is dropped, not queued: with no call pending, no step taken while
\* a cycle is in flight starts a further cycle or leaves a call pending.
C7_TriggerInFlightIsDropped ==
    [][((\E c \in Slots : InFlight(c)) /\ ~timeoutId)
       => (started' = started /\ ~timeoutId')]_vars

\* C8: no failure inside a periodically triggered cycle ends the monitoring
\* loop: after it the process still runs and no error went unhandled.
C8_FailedTimerCycleKeepsLoop ==
    timerFailures > 0 => (procAlive /\ ~unhandled)

\* C9: when in commitIpChange the commit step succeeds and the push then
\* fails, a rollback is attempted, and over the whole call exactly one.
C9_PushFailureRollsBackOnce ==
    (gEntry = "commitIpChange" /\ gPc = "done" /\ gPushFails > 0) => gRollbacks = 1

C11_CleanTreeNoFilesIsNoOp ==
    (gEntry = "commitAndPush" /\ gEnabled /\ gFiles = <<>> /\ ~gHasChanges) =>
       /\ \A i \in 1..Len(gCmds) : gCmds[i] \in {"pull", "status", "branch"}
       /\ gRollbacks = 0
       /\ gHead = 0
       /\ (gPc = "done" /\ gFailedAt = "none") =>
             /\ gOutcome = "returned"
             /\ gResult = [success |-> TRUE, kind |-> "nochanges"]

\* the no-op return on a clean tree
C11_Witness ==
    /\ gEntry = "commitAndPush"
    /\ gFiles = <<>>
    /\ gPc = "done"
    /\ gResult = [success |-> TRUE, kind |-> "nochanges"]
    /\ gCmds = <<"pull", "status", "branch">>

\* C12: the retry of commitIpChange wraps the whole git sequence: an attempt
\* is started again only after the previous one failed and it starts at pull,
\* there are at most GitMaxRetries attempts, no attempt follows a returned
\* result, and every call that was started ends.
C12_RetryWrapsWholeSequence ==
    /\ [](gEntry = "commitIpChange" =>
            /\ gAttempt \in 1..GitMaxRetries
            /\ (gCmds # <<>> => gCmds[1] = "pull")
            /\ (gOutcome = "returned" => gPc = "done"))
    /\ [][(gEntry = "commitIpChange" /\ gAttempt' = gAttempt + 1)
           => /\ gPc = "sleep" /\ gFailedAt # "none" /\ gOutcome = "none"
              /\ gPc' = "pull" /\ gCmds' = <<"pull">> /\ gOps' = <<"pull">>]_vars
    /\ ((gPc \notin {"idle", "done"}) ~> (gPc = "done"))

\* the first attempt failed and the second one succeeded
C12_Witness ==
    /\ gEntry = "commitIpChange"
    /\ gPc = "done"
    /\ gAttempt = 2
    /\ gResult = [success |-> TRUE, kind |-> "completed"]

GitOrder == <<"pull", "status", "branch", "add", "commit", "push">>

IsPrefix(a, b) == Len(a) <= Len(b) /\ SubSeq(b, 1, Len(a)) = a

\* the commands of the current attempt without the rollback of its catch block
IssuedSteps ==
    IF gCmds # <<>> /\ gCmds[Len(gCmds)] = "reset"
    THEN SubSeq(gCmds, 1, Len(gCmds) - 1)
    ELSE gCmds

\* the commit step of the current attempt found nothing left of its message
\* and raised before a command was issued
CommitStepRejected ==
    gOps # <<>> /\ gOps[Len(gOps)] = "commit" /\ gCommitMsg = EMPTY

\* C13: within one commitAndPush attempt the commands are issued one after
\* another in the order pull, status (status and branch), add, commit, push;
\* once a step's command has failed no further step is issued, so push is
\* never issued in an attempt whose commit step raised an error.
C13_StepsInOrderEachAfterSuccess ==
    /\ IsPrefix(IssuedSteps, GitOrder)
    /\ gFailedAt # "none" =>
          /\ IssuedSteps # <<>>
          /\ LET last == IssuedSteps[Len(IssuedSteps)]
             IN gFailedAt = (IF last = "branch" THEN "status"
                             ELSE IF CommitStepRejected THEN "commit" ELSE last)
    /\ Includes(gCmds, "push") => gFailedAt \in {"none", "push"}
    /\ gPc \in {"pull", "status", "branch", "add", "commit", "push"} =>
          /\ gFailedAt = "none"
          /\ gCmds # <<>>
          /\ gCmds[Len(gCmds)] = (IF CommitStepRejected THEN "add" ELSE gPc)

\* an attempt whose commit step failed ended without a push
C13_Witness ==
    /\ gFailedAt = "commit"
    /\ gPc = "done"
    /\ ~Includes(gCmds, "push")
    /\ Includes(gCmds, "commit")

\* C14: a cycle in which reading the local record fails, or in which
\* detection fails, is aborted: up to that point it changed neither the
\* health status nor the record file, it wrote nothing and called no git
\* workflow, and it records exactly one failed check.
C14_ReadOrDetectFailureAborts ==
    [][\A c \in Slots :
          /\ (cycles[c].pc \in {"read", "detect"} /\ cycles'[c].pc \in {"detect", "remote"})
             => (health' = health /\ file' = file)
          /\ (cycles[c].pc \in {"read", "detect"} /\ cycles'[c].pc = "rejected")
             => /\ file' = file
                /\ ~cycles'[c].wrote
                /\ ~cycles'[c].gitCalled
                /\ cycles'[c].commitMsg = EMPTY
                /\ health'.totalChecks = health.totalChecks + 1
                /\ health'.errorCount = health.errorCount + 1
                /\ health'.lastSuccess = health.lastSuccess
                /\ health'.lastIpChange = health.lastIpChange]_vars

\* a cycle whose detection failed after the local record was read
C14_Witness ==
    \E c \in Slots :
       /\ cycles[c].result = "error"
       /\ cycles[c].localIp = IP_A
       /\ cycles[c].publicIp = EMPTY
       /\ health.errorCount = 1

\* C15: when the write of the local record fails in a cycle that needs an
\* update, the cycle calls no git workflow, records one failed check and
\* leaves lastIpChange as it was; the git workflow and the updated result
\* come only after a write that succeeded.
C15_WriteFailureSkipsGit ==
    [][\A c \in Slots :
          /\ (cycles'[c].gitCalled \/ cycles'[c].result = "updated") => cycles'[c].wrote
          /\ (cycles[c].pc = "write" /\ cycles'[c].pc # "write" /\ ~cycles'[c].wrote)
             => /\ cycles'[c].pc = "rejected"
                /\ ~cycles'[c].gitCalled
                /\ cycles'[c].commitMsg = EMPTY
                /\ health'.totalChecks = health.totalChecks + 1
                /\ health'.errorCount = health.errorCount + 1
                /\ health'.lastIpChange = health.lastIpChange
                /\ file' = file]_vars

\* a cycle that announced the change and then failed to write the record
C15_Witness ==
    \E c \in Slots :
       /\ cycles[c].result = "error"
       /\ cycles[c].publicIp # EMPTY
       /\ ~cycles[c].wrote
       /\ cycles[c].notes = <<"ip_change", "error">>

\* C16: a cycle whose decision is needsUpdate = false records one successful
\* check and changes nothing else: the record file is not written, no git
\* workflow is called, no notification is requested, and lastIpChange keeps
\* its previous value.
C16_NoUpdateChangesNothingElse ==
    [][\A c \in Slots :
          (cycles[c].pc = "remote" /\ cycles'[c].result = "unchanged")
          => /\ health'.totalChecks = health.totalChecks + 1
             /\ health'.lastCheck = health'.totalChecks
             /\ health'.lastSuccess = health'.totalChecks
             /\ health'.healthy
             /\ health'.errorCount = 0
             /\ health'.lastIpChange = health.lastIpChange
             /\ file' = file
             /\ ~cycles'[c].wrote
             /\ ~cycles'[c].gitCalled
             /\ cycles'[c].notes = <<>>
             /\ UNCHANGED <<isRunning, intervalId, timeoutId, started, gVars, dVars>>]_vars

\* an unchanged check after an earlier cycle had recorded a change
C16_Witness ==
    \E c \in Slots :
       /\ cycles[c].result = "unchanged"
       /\ ~cycles[c].remoteFailed
       /\ health.lastIpChange.set
       /\ health.totalChecks = 2

\* C17: in a cycle that needs an update the record file holds the public
\* address before the git workflow is called; once the write has succeeded
\* the cycle ends as updated, with the address change and a check recorded
\* in the health status, whether the git workflow succeeds or fails, and the
\* end of the git workflow leaves the record file as written.
C17_UpdateRecordedWhateverGitDoes ==
    [][\A c \in Slots :
          /\ (~cycles[c].gitCalled /\ cycles'[c].gitCalled)
             => (cycles'[c].wrote /\ file'.ip = cycles'[c].publicIp /\ file'.written)
          /\ (cycles[c].pc = "git" /\ cycles'[c].pc # "git")
             => /\ cycles'[c].pc = "resolved"
                /\ cycles'[c].result = "updated"
                /\ health'.lastIpChange =
                      [set |-> TRUE, oldIp |-> cycles[c].localIp, newIp |-> cycles[c].publicIp]
                /\ health'.totalChecks = health.totalChecks + 1
                /\ file' = file
                /\ file.ip = cycles[c].publicIp]_vars

\* a cycle ended as updated although its git workflow failed
C17_Witness ==
    \E c \in Slots :
       /\ cycles[c].result = "updated"
       /\ cycles[c].gitFailed
       /\ file.ip = cycles[c].publicIp
       /\ health.lastIpChange.newIp = cycles[c].publicIp
       /\ cycles[c].notes = <<"ip_change", "error", "success">>

\* C18: for every pair of valid addresses old (the local record) and new (the
\* detected address) of an update cycle with git enabled: after the cycle
\* the record file holds new, the sanitized commit message holds old and new
\* in full (old after the prefix, new at the end), and lastIpChange is
\* (old, new), whatever change was recorded before.
C18_UpdateCarriesOldAndNew ==
    \A c \in Slots :
       (cycles[c].result = "updated" /\ cycles[c].gitCalled) =>
          LET old == cycles[c].localIp
              new == cycles[c].publicIp
              msg == cycles[c].commitMsg
          IN /\ file.ip = new
             /\ Len(msg) >= Len(UpdateIpPrefix) + Len(old) + Len(new)
             /\ SubSeq(msg, Len(UpdateIpPrefix) + 1, Len(UpdateIpPrefix) + Len(old)) = old
             /\ SubSeq(msg, Len(msg) - Len(new) + 1, Len(msg)) = new
             /\ health.lastIpChange = [set |-> TRUE, oldIp |-> old, newIp |-> new]

\* a second update, between two full-form IPv6 addresses
C18_Witness ==
    \E c \in Slots :
       /\ cycles[c].result = "updated"
       /\ cycles[c].gitCalled
       /\ cycles[c].localIp = IP_V6_FULL
       /\ cycles[c].publicIp = IP_V6_FULL
       /\ Len(cycles[c].commitMsg) = 92
       /\ health.totalChecks = 2

\* C19: the address that start-up seeding or a check cycle stored in the
\* record file is always a well-formed IPv4 or IPv6 address.
C19_WrittenAddressIsValid ==
    file.written => file.ip \in (WellFormedTokens \cup {IP_V6_FULL})

\* the record was seeded at start-up and the service runs
C19_Witness ==
    /\ file.written
    /\ file.ip = IP_B
    /\ isRunning

\* C20: after every sequence of recordCheck calls, errorCount is the number
\* of failed checks since the last successful one, and healthy is false
\* exactly when that number is at least 5: the fifth consecutive failure is
\* the first that makes the status unhealthy.
C20_UnhealthyFromFifthFailure ==
    /\ health.errorCount = health.totalChecks - health.lastSuccess
    /\ health.healthy <=> (health.totalChecks - health.lastSuccess < 5)
    /\ health.lastCheck = health.totalChecks

\* five failures in a row after a successful check
C20_Witness ==
    /\ health.lastSuccess = 1
    /\ health.totalChecks = 6
    /\ health.errorCount = 5
    /\ ~health.healthy

\* C21: from every reachable HealthStatus state a recordCheck(true) leaves
\* errorCount = 0, the errors list empty, healthy = true and lastSuccess
\* equal to lastCheck.
C21_SuccessResetsFailures ==
    [][health'.lastSuccess # health.lastSuccess
       => /\ health'.errorCount = 0
          /\ health'.errors = <<>>
          /\ health'.healthy
          /\ health'.lastSuccess = health'.lastCheck
          /\ health'.totalChecks = health.totalChecks + 1]_vars

\* a successful check right after six failures, three of them with an error
C21_Witness ==
    /\ health.totalChecks = 7
    /\ health.lastSuccess = 7
    /\ health.errors = <<>>
    /\ health.healthy

\* C22: the errors list never holds more than 10 entries; a failure recorded
\* with an error while the list holds 10 drops the oldest entry, keeps the
\* order of the others and puts the new error last.
C22_ErrorsKeepLastTen ==
    [][/\ Len(health'.errors) <= 10
       /\ (Len(health.errors) = 10 /\ health'.errors # health.errors
           /\ health'.errorCount = health.errorCount + 1)
          => /\ Len(health'.errors) = 10
             /\ \A i \in 1..9 : health'.errors[i] = health.errors[i + 1]
             /\ health'.errors[10].timestamp = health'.lastCheck]_vars

\* eleven failures with an error: the first one was dropped
C22_Witness ==
    /\ Len(health.errors) = 10
    /\ health.errors[1].timestamp = 2
    /\ health.errors[10].timestamp = 11


\* C23: stop(reason) called while a check cycle is in flight does not
\* complete until that cycle has finished: at the step in which stop returns
\* no check cycle is in flight.
C23_StopWaitsForCycle ==
    [][(~stopped /\ stopped') =>
          \A c \in Slots :
             cycles'[c].pc \notin {"read", "detect", "remote", "write", "git"}]_vars

\* C24: after stop() has returned no check cycle is begun by the timer or by
\* a debounced call that was pending when stop was called: while the service
\* is stopped no cycle of origin "timer" begins.
C24_NoTimerCycleAfterStop ==
    [][stopped =>
          \A c \in Slots :
             (cycles'[c].origin = "timer" /\ cycles'[c].pc = "read")
                => cycles'[c] = cycles[c]]_vars


\* C25: when start-up validation has failed (detection unhealthy, or version
\* control enabled and its validation unhealthy) the service does not start:
\* no initial check cycle runs, no timer is scheduled, isRunning stays false.
C25_FailedValidationStartsNothing ==
    validation \in {"ipFailed", "gitFailed"} =>
       /\ ~isRunning
       /\ ~intervalId
       /\ startPc # "initial"
       /\ \A c \in Slots : cycles[c].origin # "initial"


\* the steps of start() in the order the claim gives them, and its failure
StartOrder ==
    { <<"idle", "validateIp">>, <<"validateIp", "validateGit">>,
      <<"validateGit", "seed">>, <<"validateGit", "telegram">>,
      <<"seed", "telegram">>, <<"telegram", "initial">>, <<"initial", "idle">> }
    \cup { <<p, "failed">> : p \in {"validateIp", "validateGit", "seed", "telegram"} }

InitialCycles == {c \in Slots : cycles[c].origin = "initial"}

\* C26: start() validates the services, seeds the local record when the
\* record file is absent (and only then), runs exactly one check cycle and
\* then schedules the timer: the timer is scheduled only in the step in
\* which the initial cycle settles, the one initial cycle is in flight
\* exactly while start() waits for it, and the record file exists from the
\* end of validation on, so before the initial cycle reads it.
C26_StartOrder ==
    /\ [][/\ startPc' # startPc => <<startPc, startPc'>> \in StartOrder
          /\ (startPc = "validateGit" /\ startPc' = "seed") => ~file.exists
          /\ (startPc = "validateGit" /\ startPc' = "telegram") => file.exists
          /\ (startPc = "seed" /\ startPc' = "telegram") =>
                (~file.exists /\ file'.exists /\ isValidIp(file'.ip))
          /\ (timers' > timers \/ (~intervalId /\ intervalId')) =>
                /\ timers' = timers + 1
                /\ intervalId'
                /\ startPc = "initial" /\ startPc' = "idle"
                /\ InitialCycles # {}
                /\ \A c \in InitialCycles : cycles'[c] = IdleCycle
                /\ isRunning']_vars
    /\ [](/\ Cardinality(InitialCycles) = (IF startPc = "initial" THEN 1 ELSE 0)
          /\ startPc \in {"telegram", "initial"} => file.exists
          /\ (~simple /\ startPc \in {"validateIp", "validateGit", "seed", "telegram", "initial"})
                => (~intervalId /\ ~isRunning))

\* a start that seeded the record, ran its one cycle and scheduled the timer
C26_Witness ==
    /\ startPc = "idle" /\ isRunning /\ intervalId
    /\ started = 1 /\ health.totalChecks = 2
    /\ file = [exists |-> TRUE, ip |-> IP_B, written |-> TRUE]
    /\ ~health.lastIpChange.set


RECURSIVE CallsUpTo(_)
CallsUpTo(i) ==
    IF i = 0 THEN 0 ELSE dCalls[sortedMethods[i].priority] + CallsUpTo(i - 1)

\* the external calls one getPublicIp call has made so far
TotalCalls == CallsUpTo(Len(sortedMethods))

\* C27: one getPublicIp call invokes each strategy at most 2 times and makes
\* at most 2 x N external calls; a strategy whose last attempt fails is left
\* for the next one (or, after the last strategy, for the all-methods-failed
\* error, one error per strategy); and, each external call ending, the call
\* ends with a result or with that error.
C27_BoundedRetriesAndTermination ==
    /\ [](/\ \A p \in Priorities : dCalls[p] <= 2
          /\ TotalCalls <= 2 * Len(detectionMethods)
          /\ dPc = "thrown" => Len(dErrors) = Len(detectionMethods)
          /\ dPc = "returned" => (dResult.success /\ isValidIp(dResult.ip)))
    /\ [][(dPc = "running" /\ dAttempt = 2 /\ dCalls' # dCalls) =>
             /\ dAttempt' = 1 \/ dPc' # "running"
             /\ dPc' = "running" => dIdx' = dIdx + 1
             /\ dPc' # "running" =>
                   (dPc' = "returned" \/ (dPc' = "thrown" /\ dIdx = Len(sortedMethods)))]_vars
    /\ (dPc = "running") ~> (dPc \in {"returned", "thrown"})

\* every strategy used both its attempts and the call ended with the error
C27_Witness ==
    /\ dPc = "thrown"
    /\ \A p \in Priorities : dCalls[p] = 2
    /\ TotalCalls = 10


\* C28: in the notifying monitor a settled check cycle has asked for a change
\* notification exactly when it wrote the local record.
C28_ChangeNotifiedIffWritten ==
    \A c \in Slots :
       (~simple /\ cycles[c].pc \in {"resolved", "rejected"}) =>
          (Includes(cycles[c].notes, "ip_change") <=> cycles[c].wrote)


\* a message of at most 100 characters without any of the characters the
\* shell reads ("U+0060" is the grave accent)
CleanMessage(m) ==
    /\ Len(m) <= 100
    /\ \A i \in 1..Len(m) :
          m[i] \notin {"U+0060", "$", "(", ")", "{", "}", "[", "]", "|", "&", ";"}

\* C29: whatever message a caller hands in, what sanitizeGitMessage makes of
\* it is at most 100 characters long and holds none of the dangerous
\* characters, and a commit command is issued only with such a message (and
\* never with an empty one).
C29_CommitUsesSanitizedMessage ==
    /\ CleanMessage(sanitizeGitMessage(gMessage))
    /\ CleanMessage(gCommitMsg)
    /\ Includes(gCmds, "commit") =>
          (gCommitMsg # EMPTY /\ gCommitMsg = sanitizeGitMessage(gMessage))

\* a commit issued with a message cut to the limit, whose input held
\* dangerous characters
C29_Witness ==
    /\ Includes(gCmds, "commit")
    /\ Len(gMessage) > 100
    /\ Includes(gMessage, "$")
    /\ Len(gCommitMsg) = 100


DigitValue ==
    [d \in Digits |->
       CASE d = "0" -> 0 [] d = "1" -> 1 [] d = "2" -> 2 [] d = "3" -> 3 [] d = "4" -> 4
         [] d = "5" -> 5 [] d = "6" -> 6 [] d = "7" -> 7 [] d = "8" -> 8 [] d = "9" -> 9]

RECURSIVE DecimalValue(_)
DecimalValue(t) ==
    IF t = <<>> THEN 0
    ELSE 10 * DecimalValue(SubSeq(t, 1, Len(t) - 1)) + DigitValue[t[Len(t)]]

IsDecimal(t) == t # <<>> /\ \A i \in 1..Len(t) : t[i] \in Digits

\* a decimal octet: one to three decimal digits with a value in 0..255
DecimalOctet(t) == IsDecimal(t) /\ Len(t) <= 3 /\ DecimalValue(t) \in 0..255

\* a group of 1 to 4 hex digits
HexGroup(t) ==
    /\ Len(t) \in 1..4
    /\ \A i \in 1..Len(t) :
          t[i] \in {"0", "1", "2", "3", "4", "5", "6", "7", "8", "9",
                    "a", "b", "c", "d", "e", "f", "A", "B", "C", "D", "E", "F"}

\* C30: isValidIp accepts four dot-separated decimal octets (one to three
\* digits, value 0..255) and eight colon-separated groups of 1 to 4 hex
\* digits; it rejects a dotted text with an octet above 255 or with another
\* number of segments, a colon-separated text with a non-hex group or with
\* another number of groups, a value that is no string, and the empty
\* string.
C30_IsValidIpAcceptsAndRejects ==
    LET segs == vIn.segs
        n == Len(segs)
    IN /\ (vIn.sep = "." /\ n = 4 /\ \A i \in 1..n : DecimalOctet(segs[i])) => vOut
       /\ (vIn.sep = ":" /\ n = 8 /\ \A i \in 1..n : HexGroup(segs[i])) => vOut
       /\ (vIn.sep = "." /\ \E i \in 1..n : IsDecimal(segs[i]) /\ DecimalValue(segs[i]) > 255)
             => ~vOut
       /\ (vIn.sep = "." /\ n # 4) => ~vOut
       /\ (vIn.sep = ":" /\ \E i \in 1..n : ~HexGroup(segs[i])) => ~vOut
       /\ (vIn.sep = ":" /\ n # 8) => ~vOut
       /\ (vIn.value = NOT_STRING \/ vIn.value = EMPTY) => ~vOut

\* an accepted address with the octets 255 and 007
C30_Witness ==
    /\ vOut
    /\ vIn.value = <<"2", "5", "5", ".", "1", ".", "2", "5", "5", ".", "0", "0", "7">>

\* a rejected address whose last octet is 256
C30_WitnessRejected ==
    /\ ~vOut
    /\ vIn.value = <<"0", ".", "2", "5", "5", ".", "2", "5", "6", ".", "1", "0">>


\* a GitService call that returned at once with success = true and without
\* a single git command
ReturnedDisabled ==
    /\ gCmds = <<>> /\ gOps = <<>> /\ gRollbacks = 0 /\ gHead = 0
    /\ gPc = "done" /\ gOutcome = "returned"
    /\ gResult = [success |-> TRUE, kind |-> "disabled"]

C32_RollbackOnlyAfterCommit ==
    /\ gPc = "rollback" =>
          (gCommitted /\ gFailedAt \notin {"pull", "status", "add", "commit"})
    /\ gHead >= 0


\* the current attempt went past its commit step without making a commit:
\* the commit command ended with 'nothing to commit'
NothingCommitted == Includes(gOps, "push") /\ ~gCommitted

\* C33: when the git commit command ends with 'nothing to commit' the
\* commit step counts as done: the attempt goes on to issue push, no
\* rollback is issued in it, and when the push succeeds commitAndPush
\* returns success = true.
C33_NothingToCommitGoesOnToPush ==
    /\ [][(gPc = "commit" /\ gCommitMsg # EMPTY /\ gPc' # "commit"
              /\ gFailedAt' = "none" /\ gHead' = gHead) =>
             /\ gPc' = "push"
             /\ gCmds' = Append(gCmds, "push")
             /\ gRollbacks' = gRollbacks
             /\ ~gCommitted']_vars
    /\ [](NothingCommitted =>
             /\ gPc \in {"push", "sleep", "done"}
             /\ ~Includes(gCmds, "reset")
             /\ (gPc = "done" /\ gFailedAt = "none") =>
                   (gOutcome = "returned"
                    /\ gResult = [success |-> TRUE, kind |-> "completed"]))

\* nothing was committed, the push went through, the call returned success
C33_Witness ==
    /\ NothingCommitted
    /\ gPc = "done" /\ gOutcome = "returned" /\ gResult.success
    /\ gCmds = <<"pull", "status", "branch", "add", "commit", "push">>
    /\ gRollbacks = 0


\* C34: whatever start() and stop() calls were made, at most one periodic
\* timer is active and it is the one stop() can cancel (the one intervalId
\* refers to).
C34_OneTimerThatStopCancels ==
    timers = (IF intervalId THEN 1 ELSE 0)


\* C35: at the step in which start() returns true (its initial cycle has
\* settled, the timer is scheduled, the successful check is recorded) the
\* health tracker is healthy, with errorCount = 0 and no errors, whether or
\* not the initial cycle failed.
C35_StartedServiceIsHealthy ==
    [][(startPc = "initial" /\ startPc' = "idle") =>
          /\ isRunning'
          /\ health'.healthy
          /\ health'.errorCount = 0
          /\ health'.errors = <<>>
          /\ health'.lastSuccess = health'.lastCheck]_vars

\* a started service whose initial cycle failed at the read of a record
\* that holds no valid address
C35_Witness ==
    /\ startPc = "idle" /\ isRunning /\ started = 1
    /\ file.exists /\ ~isValidIp(file.ip)
    /\ health.totalChecks = 2 /\ health.errorCount = 0 /\ health.errors = <<>>
    /\ health.healthy


Converged == file.ip = IP_B /\ remoteDoc = IP_B

\* a cycle between its decision to update and its settlement
Updating(c) == cycles[c].pc \in {"write", "git"}

RecordUnusable == file.exists /\ file.ip \in {EMPTY, BAD_OCTET, BAD_COUNT}

\* C37: while the record file exists and holds no valid address, every
\* check cycle ends at its read step with a failed check recorded, no cycle
\* gets past the read, and the file is never rewritten.
C37_UnusableRecordIsNeverRepaired ==
    /\ [](RecordUnusable =>
             \A c \in Slots : cycles[c].pc \in {"idle", "read", "rejected"})
    /\ [][RecordUnusable =>
             /\ file' = file
             /\ \A c \in Slots :
                   (cycles[c].pc = "read" /\ cycles'[c] # cycles[c]) =>
                      /\ cycles'[c].pc \in {"idle", "rejected"}
                      /\ IF cycles[c].origin = "initial"
                         THEN health'.totalChecks = health.totalChecks + 2
                         ELSE /\ health'.totalChecks = health.totalChecks + 1
                              /\ health'.errorCount = health.errorCount + 1
                              /\ health'.lastSuccess = health.lastSuccess]_vars

\* a started service whose initial cycle and first periodic cycle both
\* failed at the read of the unusable record
C37_Witness ==
    /\ file = [exists |-> TRUE, ip |-> BAD_OCTET, written |-> FALSE]
    /\ started = 2
    /\ timerFailures = 1
    /\ health.errorCount = 1

\* ---- C38 ----
\* the debounced function is called in this step
DebouncedCalled == ticks' + otherCalls' > ticks + otherCalls

\* C38: the debounced check is a trailing-edge debounce. A call made less
\* than debounceDelay after the previous call finds that call's timer still
\* pending, starts no cycle and leaves exactly one timer pending; a cycle is
\* started by the debounce only debounceDelay after the last call, with no
\* timer left pending, and never later than that. With checkInterval
\* greater than debounceDelay and the interval as the only caller, the
\* cycles started plus the one still pending are as many as the ticks.
C38_TrailingEdgeDebounce ==
    /\ CheckInterval > DebounceDelay
    /\ [][/\ ((DebouncedCalled /\ lastCallAt # NoTime /\ clock - lastCallAt < DebounceDelay) =>
                   /\ timeouts # {}
                   /\ started' = started
                   /\ timeouts' = {clock + DebounceDelay})
             /\ (DebouncedCalled => timeouts' = {clock + DebounceDelay})
             /\ (started' > started =>
                   /\ clock = lastCallAt + DebounceDelay
                   /\ timeouts' = {}
                   /\ started' = started + 1)]_vars
    /\ [](lastCallAt # NoTime /\ clock > lastCallAt + DebounceDelay => timeouts = {})
    /\ [](otherCalls = 0 => started + Cardinality(timeouts) = ticks)

\* a burst of four calls, one of them a tick of the interval and each less
\* than two time units after the one before, has started one cycle, two
\* units after its last call
C38_Witness ==
    /\ otherCalls = 3 /\ ticks = 1
    /\ lastCallAt = 4 /\ clock = 6
    /\ started = 1 /\ timeouts = {}

\* two ticks of the interval alone have started two cycles
C38_WitnessPeriodic ==
    otherCalls = 0 /\ ticks = 2 /\ started = 2 /\ timeouts = {}

\* ---- C39 ----
\* d, 2d, 4d, ...: k delays, the first of them d
RECURSIVE Doubling(_, _)
Doubling(d, k) == IF k = 0 THEN <<>> ELSE <<d>> \o Doubling(2 * d, k - 1)

\* the waits between the calls of fn made so far
Waits == [k \in 1..(Len(wTimes) - 1) |-> wTimes[k + 1] - wTimes[k]]

\* C39: withRetry(fn, n, d) with n >= 1 waits d, 2d, 4d, ... between a
\* failed attempt and the next one, does not wait after the attempt that
\* succeeds or after the n-th failed attempt, and after n failures throws
\* an error made of n and of the last failure's message.
C39_BackoffAndFinalError ==
    /\ [](wPc # "idle" =>
            /\ Len(wTimes) = wAttempt /\ wAttempt <= wMaxRetries
            /\ Waits = Doubling(wBaseDelay, wAttempt - 1))
    /\ [](wPc \in {"returned", "thrown"} => clock = wTimes[Len(wTimes)])
    /\ [](wPc = "thrown" <=> wError # NoError)
    /\ [](wPc = "thrown" =>
            /\ wAttempt = wMaxRetries
            /\ wError = <<"Failed after ", wMaxRetries, " attempts: ", wLastMessage>>)
    /\ [][(wPc = "attempt" /\ wPc' = "thrown") =>
             (wLastMessage' \in FailureMessages /\ clock' = clock)]_vars
    /\ [][(wPc = "attempt" /\ wPc' = "returned") => clock' = clock]_vars

\* four attempts with base delay 2 waited 2, 4 and 8, and the fourth
\* failure ended the call
C39_Witness ==
    /\ wPc = "thrown" /\ wMaxRetries = 4 /\ wBaseDelay = 2
    /\ wTimes = <<0, 2, 6, 14>> /\ clock = 14
    /\ wError = <<"Failed after ", 4, " attempts: ", "refused">>

\* ---- C40 ----
\* the admitted calls made at times t..t+windowMs-1 after exactly e resets
AdmittedIn(t, e) ==
    {i \in DOMAIN admitted :
        /\ admitted[i].at >= t /\ admitted[i].at < t + windowMs
        /\ admitted[i].epoch = e}

\* the admitted calls made at times t..t+windowMs-1
AdmittedInWindow(t) == UNION {AdmittedIn(t, e) : e \in 0..MaxResets}

\* the entries of the call list younger than windowMs
Recent == SelectSeq(calls, LAMBDA callTime : clock - callTime < windowMs)

\* isAllowed() is called in this step (and the step is not a call that
\* repeats, at the same time, a call that was rejected)
IsAllowedStep == allowed' # allowed \/ admitted' # admitted

\* the statement as written: at most maxCalls calls are admitted in any
\* window of length windowMs, whatever calls were made
C40_AtMostMaxCallsInAnyWindow ==
    \A t \in 0..LimiterHorizon : Cardinality(AdmittedInWindow(t)) <= maxCalls

\* C40: the call list never holds more than maxCalls timestamps; between
\* two reset calls at most maxCalls calls are admitted in any window of
\* length windowMs; a rejected call is not recorded; and a call is admitted
\* when fewer than maxCalls entries of the list are younger than windowMs.
C40_AtMostMaxCallsBetweenResets ==
    /\ [](Len(calls) <= maxCalls)
    /\ [](\A t \in 0..LimiterHorizon, e \in 0..MaxResets :
             Cardinality(AdmittedIn(t, e)) <= maxCalls)
    /\ [][IsAllowedStep =>
             /\ allowed'.at = clock
             /\ allowed'.ok <=> Len(Recent) < maxCalls
             /\ IF allowed'.ok
                THEN /\ calls' = Append(Recent, clock)
                     /\ admitted' = Append(admitted, [at |-> clock, epoch |-> resets])
                ELSE /\ calls' = Recent
                     /\ admitted' = admitted]_vars

\* the limiter was full, rejected a call, and admitted the next call made
\* windowMs after the first admitted one
C40_Witness ==
    /\ resets = 0
    /\ Len(admitted) = 3
    /\ admitted[1].at = 0 /\ admitted[2].at = 0 /\ admitted[3].at = 3
    /\ allowed = [at |-> 3, ok |-> TRUE] /\ clock = 3
    /\ calls = <<3>>

\* reset() between two admitted bursts
C40_WitnessReset ==
    /\ resets = 1 /\ Len(admitted) = 4 /\ clock = 0 /\ Len(calls) = 2

====
